---- MODULE Spec2Model ----
(***************************************************************************)
(* The audio playback engine of the session manager (class AudioManager),  *)
(* the HTMLAudioElement it drives, the interval timers of its fades and    *)
(* the pending invocations of loadAndPlayTrack, together with the play     *)
(* page's loadPartContent, which is the only caller of loadBGM and         *)
(* loadEventPlaylists.                                                     *)
(*                                                                         *)
(* Track indices are 0-based as in the source; the track at index i of a   *)
(* list is tracks[i + 1].  Volumes are integers in tenths (1.0 = 10).      *)
(* Playback positions are integers in 0..TrackLen.                         *)
(***************************************************************************)
EXTENDS Integers, Sequences, FiniteSets, TLC

\* ------------------------------------------------------------------ bounds
\* user operations in one run
MaxOps == 3
\* of these, operations issued while a track transition is still pending
MaxRaces == 1
\* user operations in a session without overlapping requests
MaxSerialOps == 2
\* subdirectories of the category directories in a scanned tree
MaxActDirs == 2
\* runs of the scanner over one tree
MaxScans == 2
MaxLines == 2
MaxSetupOps == 4
MaxTextLen == 3
MaxQueryLen == 2
\* documents in one call of indexDocuments
MaxDocs == 2
\* calls of the document search in one run
MaxSearchOps == 3
\* invocations of loadAndPlayTrack pending at the same time
MaxCalls == 2
\* interval timers alive at the same time
MaxTimers == 2
\* ticks of one fade (FADE_DURATION_MS / FADE_INTERVAL_MS; 30 in the source)
FadeSteps == 2
\* length of every track, in position units
TrackLen == 2

\* ------------------------------------------------------- program constants
\* volume 1.0, in tenths
VolumeOne == 10
\* private volume: number = 0.7
InitVolume == 7
\* search(query, maxResults = 10)
DefaultMaxResults == 10

\* ------------------------------------------------------------ session data
TimerIds == 1..MaxTimers
PlaylistIds == {"P", "Q", "E"}
NoEvents == [id \in {} |-> <<>>]

\* The Parts of the session configuration handed to the play page.
\* Tracks 1..3 are ambient files, 4 and 5 are event files.
Parts ==
  << [bgm |-> <<1, 2, 3>>, events |-> [id \in {"P", "Q"} |-> IF id = "P" THEN <<4, 5>> ELSE <<5>>]],
     [bgm |-> <<1, 2, 3>>, events |-> [id \in {"P", "E"} |-> IF id = "P" THEN <<4, 5>> ELSE <<>>]],
     [bgm |-> <<>>,        events |-> [id \in {"P"} |-> <<4>>]],
     [bgm |-> <<2, 1>>,    events |-> NoEvents] >>

\* Sets of files that cannot be resolved (moved or renamed after setup).
MissingChoices == {{}, {2, 4}}
\* Arguments of setVolume, in tenths.
VolumeInputs == {-1, 12}
\* Arguments of playBGMTrack / playEventTrack.
IndexInputs == {-1, 1, 3}

VARIABLES
  am,         \* the fields of the AudioManager object
  audio,      \* the HTMLAudioElement: src, volume, paused, currentTime
  timers,     \* the interval timers created by setInterval
  calls,      \* the pending invocations of loadAndPlayTrack, oldest first
  abandoned,  \* calls the last step left awaiting a fade whose timer it cleared
  lastReq,    \* the track of the most recent loadAndPlayTrack invocation
  missing,    \* the files getFileURL cannot resolve
  ops,        \* user operations so far
  races,      \* user operations issued while a transition was pending
  left,       \* per event playlist: where playBGM() last switched away from it
  scan,       \* the folder scanner: the directory tree and the results of its runs
  setup,      \* the setup page: its configuration, its flags and its file dialogs
  controls,   \* the audio controls: the event playlists, the search query, the filtered list
  search,     \* the document search
  lastOp      \* the operation of the last step

vars == <<am, audio, timers, calls, abandoned, lastReq, missing, ops, races, left, scan,
          setup, controls, search, lastOp>>

NoPlaylist == [id |-> "", tracks |-> <<>>]
NoState == [has |-> FALSE, trackIndex |-> 0, currentTime |-> 0]
NoLeft == [has |-> FALSE, trackIndex |-> 0, currentTime |-> 0, tracks |-> <<>>]
FreeTimer == [kind |-> "free", base |-> 0, step |-> 0]
NoBroken == [kind |-> "none", dir |-> <<"", <<>>>>]
NoTree == [dirs |-> {}, bare |-> {}, files |-> {}, subs |-> {}, broken |-> NoBroken, pcs |-> {}]
NoScan == [tree |-> NoTree, results |-> <<>>, rejected |-> <<>>, players |-> <<>>, stats |-> <<>>]

\* JavaScript values, as JSON.parse builds them: typeof and payload.
Str(x) == [t |-> "string", s |-> x]
Num(x) == [t |-> "number", n |-> x]
Null == [t |-> "null"]
Arr(x) == [t |-> "array", a |-> x]
Obj(x) == [t |-> "object", o |-> x]

\* createEmptyConfig()
createEmptyConfig ==
  Obj([folderName |-> Str(""), parts |-> Arr(<<>>), playerCharacters |-> Arr(<<>>)])

\* no file: nothing downloaded yet, or nothing chosen in the file dialog
NoText == [k |-> "none"]
NoSetup == [config |-> createEmptyConfig, folderSelected |-> FALSE,
            download |-> NoText, saved |-> Null, file |-> NoText, result |-> Null,
            imported |-> FALSE, ops |-> 0]
NoControls == [eventPlaylists |-> <<>>, searchQuery |-> <<>>, filteredPlaylists |-> <<>>,
               scores |-> <<>>, matches |-> <<>>]
\* no call of lunr's Index.search
NoAnswer == [called |-> FALSE, threw |-> FALSE, refs |-> <<>>]
\* new SearchManager(): index = null, documents = new Map(); with the
\* arguments, the index's answer and the outcome of the last search, the
\* argument of the last indexDocuments and the documents of the calls before
NoSearch == [index |-> [built |-> FALSE, refs |-> {}], documents |-> <<>>,
             list |-> <<>>, earlier |-> {}, builds |-> 0,
             query |-> <<>>, maxResults |-> 0, answer |-> NoAnswer,
             results |-> <<>>, threw |-> FALSE, ops |-> 0]
\* An operation, as lastOp records it.
Op(name, id, n) == [name |-> name, id |-> id, n |-> n]

Min(a, b) == IF a < b THEN a ELSE b
Max(a, b) == IF a > b THEN a ELSE b

\* The engine with its audio element, timers and pending calls, as one value
\* the methods below transform; abandoned counts from 0 in every step.
World ==
  [am |-> am, audio |-> audio, timers |-> timers, calls |-> calls,
   abandoned |-> 0, lastReq |-> lastReq]

Commit(w) ==
  /\ am' = w.am
  /\ audio' = w.audio
  /\ timers' = w.timers
  /\ calls' = w.calls
  /\ abandoned' = w.abandoned
  /\ lastReq' = w.lastReq

\* ------------------------------------------------------------ construction
EngineInit ==
  /\ am = [currentMode |-> "bgm",
           bgmTracks |-> <<>>,
           currentBgmIndex |-> 0,
           eventPlaylists |-> NoEvents,
           currentEventPlaylist |-> NoPlaylist,
           currentEventIndex |-> 0,
           volume |-> InitVolume,
           playlistStates |-> [id \in PlaylistIds |-> NoState],
           bgmState |-> [trackIndex |-> 0, currentTime |-> 0],
           fadeInterval |-> 0,
           isFading |-> FALSE]
  /\ audio = [src |-> 0, volume |-> InitVolume, paused |-> TRUE, currentTime |-> 0]
  /\ timers = [t \in TimerIds |-> FreeTimer]
  /\ calls = <<>>
  /\ abandoned = 0
  /\ lastReq = 0
  /\ missing \in MissingChoices
  /\ ops = 0
  /\ races = 0
  /\ left = [id \in PlaylistIds |-> NoLeft]
  /\ lastOp = Op("new", "", 0)

\* A play session: no folder is being scanned.
Init == EngineInit /\ scan = NoScan /\ setup = NoSetup /\ controls = NoControls
          /\ search = NoSearch

\* ---------------------------------------------------------------- helpers
RemoveAt(seq, i) == SubSeq(seq, 1, i - 1) \o SubSeq(seq, i + 1, Len(seq))

Awaits(c, t) == c.pc \in {"fadeOut", "fadeIn"} /\ c.timer = t

HasFreeTimer(w) == \E t \in TimerIds : w.timers[t].kind = "free"
NewTimer(w) == CHOOSE t \in TimerIds :
                 /\ w.timers[t].kind = "free"
                 /\ \A u \in TimerIds : w.timers[u].kind = "free" => t <= u

\* Room for one more invocation of loadAndPlayTrack and one more timer.
Room(w) == Len(w.calls) < MaxCalls /\ HasFreeTimer(w)

\* ------------------------------------------------------------ AudioManager
\* cancelFade(): clears the timer fadeInterval names.  A call awaiting that
\* timer's fade is never resumed: its promise is not resolved.
cancelFade(w) ==
  LET t == w.am.fadeInterval
      hung == {i \in 1..Len(w.calls) : t # 0 /\ Awaits(w.calls[i], t)}
      kept == SelectSeq(w.calls, LAMBDA c : ~(t # 0 /\ Awaits(c, t)))
  IN [w EXCEPT !.timers = IF t # 0 THEN [w.timers EXCEPT ![t] = FreeTimer] ELSE w.timers,
               !.calls = kept,
               !.abandoned = w.abandoned + Cardinality(hung),
               !.am.fadeInterval = 0,
               !.am.isFading = FALSE]

\* A saveCurrentState() that remembers the ambient state only.
saveCurrentState_ambientOnly(w) ==
  IF w.am.currentMode = "bgm"
    THEN [w EXCEPT !.am.bgmState =
            [trackIndex |-> w.am.currentBgmIndex, currentTime |-> w.audio.currentTime]]
    ELSE w

\* saveCurrentState()
saveCurrentState(w) ==
  LET currentTime == w.audio.currentTime
  IN IF w.am.currentMode = "bgm"
       THEN [w EXCEPT !.am.bgmState =
               [trackIndex |-> w.am.currentBgmIndex, currentTime |-> currentTime]]
     ELSE IF w.am.currentEventPlaylist # NoPlaylist
       THEN [w EXCEPT !.am.playlistStates[w.am.currentEventPlaylist.id] =
               [has |-> TRUE, trackIndex |-> w.am.currentEventIndex,
                currentTime |-> currentTime]]
     ELSE w

\* fadeOut(), called by loadAndPlayTrack when the element is not paused: the
\* promise resolves at once when the volume is 0, else a timer is started.
\* The result is the call record of the invocation awaiting it.
fadeOut(w, track, startTime) ==
  IF w.audio.paused \/ w.audio.volume = 0
    THEN [w EXCEPT !.calls = Append(w.calls,
            [pc |-> "url", track |-> track, startTime |-> startTime, timer |-> 0])]
    ELSE LET t == NewTimer(w)
         IN [w EXCEPT !.am.isFading = TRUE,
                      !.am.fadeInterval = t,
                      !.timers[t] = [kind |-> "out", base |-> w.audio.volume, step |-> 0],
                      !.calls = Append(w.calls,
                         [pc |-> "fadeOut", track |-> track, startTime |-> startTime,
                          timer |-> t])]

\* loadAndPlayTrack(track, startTime), up to its first await.
loadAndPlayTrack(w, track, startTime) ==
  LET w1 == cancelFade([w EXCEPT !.lastReq = track])
  IN IF ~w1.audio.paused
       THEN fadeOut(w1, track, startTime)
       ELSE [w1 EXCEPT !.calls = Append(w1.calls,
               [pc |-> "url", track |-> track, startTime |-> startTime, timer |-> 0])]

\* The tracks and the index of the playlist of the current mode.
ActiveTracks(w) ==
  IF w.am.currentMode = "bgm" THEN w.am.bgmTracks ELSE w.am.currentEventPlaylist.tracks
ActiveIndex(w) ==
  IF w.am.currentMode = "bgm" THEN w.am.currentBgmIndex ELSE w.am.currentEventIndex

\* An advance that stops at the last track instead of wrapping.
NextIndex_noWrap(i, n) == IF i + 1 >= n THEN i ELSE i + 1

\* the index playNext() moves to
NextIndex(i, n) == (i + 1) % n
\* the index skipPrevious() moves to
PrevIndex(i, n) == IF i = 0 THEN n - 1 ELSE i - 1

\* playNext()
playNext(w) ==
  IF w.am.currentMode = "bgm"
    THEN IF Len(w.am.bgmTracks) = 0 THEN w
         ELSE LET i == NextIndex(w.am.currentBgmIndex, Len(w.am.bgmTracks))
              IN loadAndPlayTrack([w EXCEPT !.am.currentBgmIndex = i],
                                  w.am.bgmTracks[i + 1], 0)
  ELSE IF w.am.currentEventPlaylist # NoPlaylist
    THEN LET tracks == w.am.currentEventPlaylist.tracks
         IN IF Len(tracks) = 0 THEN w
            ELSE LET i == NextIndex(w.am.currentEventIndex, Len(tracks))
                 IN loadAndPlayTrack([w EXCEPT !.am.currentEventIndex = i],
                                     tracks[i + 1], 0)
  ELSE w

\* skipPrevious()
skipPrevious(w) ==
  IF w.am.currentMode = "bgm"
    THEN IF Len(w.am.bgmTracks) = 0 THEN w
         ELSE LET i == PrevIndex(w.am.currentBgmIndex, Len(w.am.bgmTracks))
              IN loadAndPlayTrack([w EXCEPT !.am.currentBgmIndex = i],
                                  w.am.bgmTracks[i + 1], 0)
  ELSE IF w.am.currentEventPlaylist # NoPlaylist
    THEN LET tracks == w.am.currentEventPlaylist.tracks
         IN IF Len(tracks) = 0 THEN w
            ELSE LET i == PrevIndex(w.am.currentEventIndex, Len(tracks))
                 IN loadAndPlayTrack([w EXCEPT !.am.currentEventIndex = i],
                                     tracks[i + 1], 0)
  ELSE w

\* A playBGM() that trusts the remembered index.
playBGM_unchecked(w) ==
  LET w1 == saveCurrentState(w)
  IN IF Len(w1.am.bgmTracks) = 0 THEN w1
     ELSE LET i == w1.am.bgmState.trackIndex
              w2 == [w1 EXCEPT !.am.currentMode = "bgm", !.am.currentBgmIndex = i]
          IN IF i >= Len(w2.am.bgmTracks) THEN w2
             ELSE loadAndPlayTrack(w2, w2.am.bgmTracks[i + 1], w2.am.bgmState.currentTime)

\* playBGM()
playBGM(w) ==
  LET w1 == saveCurrentState(w)
  IN IF Len(w1.am.bgmTracks) = 0 THEN w1
     ELSE LET stale == w1.am.bgmState.trackIndex >= Len(w1.am.bgmTracks)
              i == IF stale THEN 0 ELSE w1.am.bgmState.trackIndex
              st == IF stale THEN [trackIndex |-> 0, currentTime |-> 0]
                             ELSE w1.am.bgmState
              w2 == [w1 EXCEPT !.am.currentMode = "bgm",
                               !.am.currentBgmIndex = i,
                               !.am.bgmState = st]
          IN loadAndPlayTrack(w2, w2.am.bgmTracks[i + 1], st.currentTime)

\* A startEvent(playlistId) that switches to event mode before it looks the
\* playlist up.
startEvent_modeFirst(w, id) ==
  LET w1 == saveCurrentState(w)
  IN IF id \notin DOMAIN w1.am.eventPlaylists \/ Len(w1.am.eventPlaylists[id]) = 0
       THEN [w1 EXCEPT !.am.currentMode = "event"]
     ELSE LET tracks == w1.am.eventPlaylists[id]
              savedState == w1.am.playlistStates[id]
              i == IF savedState.has /\ savedState.trackIndex < Len(tracks)
                     THEN savedState.trackIndex ELSE 0
          IN loadAndPlayTrack(
               [w1 EXCEPT !.am.currentMode = "event",
                          !.am.currentEventPlaylist = [id |-> id, tracks |-> tracks],
                          !.am.currentEventIndex = i],
               tracks[i + 1], IF savedState.has THEN savedState.currentTime ELSE 0)

\* startEvent(playlistId)
startEvent(w, id) ==
  LET w1 == saveCurrentState(w)
  IN IF id \notin DOMAIN w1.am.eventPlaylists THEN w1
     ELSE IF Len(w1.am.eventPlaylists[id]) = 0 THEN w1
     ELSE LET tracks == w1.am.eventPlaylists[id]
              savedState == w1.am.playlistStates[id]
              saved == IF savedState.has THEN savedState.trackIndex ELSE 0
              startTime == IF savedState.has THEN savedState.currentTime ELSE 0
              stale == saved >= Len(tracks)
              i == IF stale THEN 0 ELSE saved
              w2 == [w1 EXCEPT !.am.currentMode = "event",
                               !.am.currentEventPlaylist = [id |-> id, tracks |-> tracks],
                               !.am.currentEventIndex = i,
                               !.am.playlistStates[id] =
                                  IF stale THEN NoState ELSE savedState]
          IN loadAndPlayTrack(w2, tracks[i + 1], startTime)

\* A stopEvent() that clears the event playlist and leaves the mode to
\* playBGM().
stopEvent_keepMode(w) ==
  IF w.am.currentMode = "bgm" THEN w
  ELSE LET w1 == [w EXCEPT !.am.currentEventPlaylist = NoPlaylist,
                           !.am.currentEventIndex = 0]
       IN IF Len(w1.am.bgmTracks) > 0 THEN playBGM(w1) ELSE w1

\* stopEvent()
stopEvent(w) ==
  IF w.am.currentMode = "bgm" THEN w
  ELSE LET w1 == [w EXCEPT !.am.currentEventPlaylist = NoPlaylist,
                           !.am.currentEventIndex = 0,
                           !.am.currentMode = "bgm"]
       IN IF Len(w1.am.bgmTracks) > 0 THEN playBGM(w1) ELSE w1

\* A playBGMTrack(index) that clamps the index instead of rejecting it.
playBGMTrack_clamped(w, index) ==
  IF Len(w.am.bgmTracks) = 0 THEN w
  ELSE LET k == Max(0, Min(Len(w.am.bgmTracks) - 1, index))
       IN loadAndPlayTrack([w EXCEPT !.am.currentMode = "bgm",
                                     !.am.currentBgmIndex = k],
                           w.am.bgmTracks[k + 1], 0)

\* playBGMTrack(index)
playBGMTrack(w, index) ==
  IF index < 0 \/ index >= Len(w.am.bgmTracks) THEN w
  ELSE loadAndPlayTrack([w EXCEPT !.am.currentMode = "bgm",
                                  !.am.currentBgmIndex = index],
                        w.am.bgmTracks[index + 1], 0)

\* playEventTrack(index)
playEventTrack(w, index) ==
  IF w.am.currentEventPlaylist = NoPlaylist THEN w
  ELSE IF index < 0 \/ index >= Len(w.am.currentEventPlaylist.tracks) THEN w
  ELSE loadAndPlayTrack([w EXCEPT !.am.currentEventIndex = index],
                        w.am.currentEventPlaylist.tracks[index + 1], 0)

\* loadBGM(tracks)
loadBGM(w, tracks) ==
  [w EXCEPT !.am.bgmTracks = tracks, !.am.currentBgmIndex = 0]

\* loadEventPlaylists(playlists)
loadEventPlaylists(w, playlists) ==
  [w EXCEPT !.am.eventPlaylists = playlists]

\* pause()
pause(w) == [w EXCEPT !.audio.paused = TRUE]

\* resume(): audio.play(); a track that has ended starts again from 0.
resume(w) ==
  [w EXCEPT !.audio.paused = FALSE,
            !.audio.currentTime =
               IF w.audio.currentTime >= TrackLen THEN 0 ELSE w.audio.currentTime]

\* A setVolume(volume) that stores the volume as given.
setVolume_unclamped(w, volume) ==
  [w EXCEPT !.am.volume = volume,
            !.audio.volume = IF w.am.isFading THEN w.audio.volume ELSE volume]

\* setVolume(volume)
setVolume(w, volume) ==
  LET v == Max(0, Min(VolumeOne, volume))
  IN [w EXCEPT !.am.volume = v,
               !.audio.volume = IF w.am.isFading THEN w.audio.volume ELSE v]

\* cleanup()
cleanup(w) == pause(cancelFade(w))

\* The audio part of the play page's loadPartContent(partId).
loadPartContent(w, p) ==
  LET part == Parts[p]
      isSameBGM == w.am.currentMode = "bgm" /\ w.am.bgmTracks = part.bgm
      w1 == loadEventPlaylists(loadBGM(w, part.bgm), part.events)
  IN IF Len(part.bgm) > 0 /\ ~isSameBGM THEN playBGM(w1) ELSE w1

\* fadeIn(), reached by the call at position ci once its play() promise has
\* settled; with a target volume of 0 the promise resolves at once and the
\* invocation finishes.
fadeIn(w, ci) ==
  LET targetVolume == w.am.volume
  IN IF targetVolume = 0
       THEN [w EXCEPT !.am.isFading = FALSE, !.calls = RemoveAt(w.calls, ci)]
       ELSE LET t == NewTimer(w)
            IN [w EXCEPT !.am.isFading = TRUE,
                         !.audio.volume = 0,
                         !.am.fadeInterval = t,
                         !.timers[t] = [kind |-> "in", base |-> targetVolume, step |-> 0],
                         !.calls[ci].pc = "fadeIn",
                         !.calls[ci].timer = t]

\* loadAndPlayTrack after getFileURL has resolved: the source is swapped
\* (load() resets the element), the position restored and play() called.
swapSource(w, ci) ==
  LET c == w.calls[ci]
  IN [w EXCEPT !.audio = [src |-> c.track, volume |-> 0, paused |-> FALSE,
                          currentTime |-> IF c.startTime > 0 THEN c.startTime ELSE 0],
               !.calls[ci].pc = "play"]

\* A catch block that restores the volume and gives up.
loadFailed_giveUp(w, ci) ==
  [w EXCEPT !.audio.volume = w.am.volume,
            !.am.isFading = FALSE,
            !.calls = RemoveAt(w.calls, ci)]

\* loadAndPlayTrack's catch block, reached when getFileURL rejects.
loadFailed(w, ci) ==
  playNext([w EXCEPT !.audio.volume = w.am.volume,
                     !.am.isFading = FALSE,
                     !.calls = RemoveAt(w.calls, ci)])

\* the volume a fade-out timer writes at its step-th tick
FadeOutVolume(base, step) == Max(0, base - ((base * step) \div FadeSteps))
\* the volume a fade-in timer writes at its step-th tick
FadeInVolume(base, step) == Min(base, (base * step) \div FadeSteps)

\* The calls once the promise of timer t's fade is resolved: a call awaiting
\* a fade-out goes on to getFileURL, a call awaiting a fade-in finishes.
Resolved(cs, t) ==
  LET done == SelectSeq(cs, LAMBDA c : ~(c.pc = "fadeIn" /\ c.timer = t))
  IN [i \in 1..Len(done) |->
        IF done[i].pc = "fadeOut" /\ done[i].timer = t
          THEN [done[i] EXCEPT !.pc = "url", !.timer = 0]
          ELSE done[i]]

\* One tick of the interval callback of timer t (fadeOut's or fadeIn's).
fadeTick(w, t) ==
  LET tm == w.timers[t]
      step == Min(FadeSteps, tm.step + 1)
      newVolume == IF tm.kind = "out" THEN FadeOutVolume(tm.base, step)
                                      ELSE FadeInVolume(tm.base, step)
      finished == step >= FadeSteps
                  \/ (IF tm.kind = "out" THEN newVolume <= 0 ELSE newVolume >= tm.base)
      w1 == [w EXCEPT !.timers[t].step = step, !.audio.volume = newVolume]
  IN IF ~finished THEN w1
     ELSE cancelFade([w1 EXCEPT
            !.audio.volume = IF tm.kind = "out" THEN 0 ELSE tm.base,
            !.audio.paused = IF tm.kind = "out" THEN TRUE ELSE w1.audio.paused,
            !.calls = Resolved(w1.calls, t)])

\* An 'ended' listener that leaves the channel stopped.
onEnded_stop(w) == [w EXCEPT !.audio.paused = TRUE]

\* The element's 'ended' listener: playback stops at the end, then playNext().
onEnded(w) == playNext([w EXCEPT !.audio.paused = TRUE])

\* ---------------------------------------------------------------- actions
\* No track transition is pending: no call is in flight and no timer is alive.
Settled ==
  /\ calls = <<>>
  /\ \A t \in TimerIds : timers[t].kind = "free"

\* left after a playBGM() that is about to run: in event mode it switches
\* away from the active event playlist, at its index and the channel's position.
LeftByPlayBGM ==
  IF am.currentMode = "event" /\ am.currentEventPlaylist # NoPlaylist
    THEN [left EXCEPT ![am.currentEventPlaylist.id] =
            [has |-> TRUE, trackIndex |-> am.currentEventIndex,
             currentTime |-> audio.currentTime,
             tracks |-> am.currentEventPlaylist.tracks]]
    ELSE left

\* left after the operation op: playBGM() with ambient tracks to play records
\* the playlist it leaves, a startEvent(id) that activates id forgets it.
LeftAfter(op) ==
  IF op.name = "playBGM" /\ Len(am.bgmTracks) > 0 THEN LeftByPlayBGM
  ELSE IF op.name = "loadPart" /\ Len(Parts[op.n].bgm) > 0 /\ am.currentMode = "event"
    THEN LeftByPlayBGM
  ELSE IF op.name = "startEvent" /\ op.id \in DOMAIN am.eventPlaylists
          /\ Len(am.eventPlaylists[op.id]) > 0
    THEN [left EXCEPT ![op.id] = NoLeft]
  ELSE left

\* startEvent(id) is called for a playlist playBGM() switched away from, the
\* playlist still being loaded with the same tracks.
Resumes(id) ==
  /\ left[id].has
  /\ id \in DOMAIN am.eventPlaylists
  /\ am.eventPlaylists[id] = left[id].tracks

\* A user operation leading to w, once the page has loaded its first Part.
User(w, op) ==
  /\ lastOp.name # "new"
  /\ ops < MaxOps
  /\ Settled \/ races < MaxRaces
  /\ Commit(w)
  /\ ops' = ops + 1
  /\ races' = IF Settled THEN races ELSE races + 1
  /\ left' = LeftAfter(op)
  /\ lastOp' = op
  /\ UNCHANGED <<missing, scan, setup, controls, search>>

\* A step of the environment (a promise settling, a timer firing, playback).
Env(w, op) ==
  /\ Commit(w)
  /\ lastOp' = op
  /\ UNCHANGED <<missing, ops, races, left, scan, setup, controls, search>>

\* The play page creates the engine, makes the first Part of the session
\* current and loads it.
FirstPart ==
  /\ lastOp.name = "new"
  /\ Env(loadPartContent(World, 1), Op("loadPart", "", 1))

LoadPart == \E p \in DOMAIN Parts :
  Room(World) /\ User(loadPartContent(World, p), Op("loadPart", "", p))
PlayBGM == Room(World) /\ User(playBGM(World), Op("playBGM", "", 0))
StartEvent == \E id \in PlaylistIds :
  Room(World) /\ User(startEvent(World, id),
                      Op("startEvent", id, IF Resumes(id) THEN 1 ELSE 0))
StopEvent == Room(World) /\ User(stopEvent(World), Op("stopEvent", "", 0))
SkipNext == Room(World) /\ User(playNext(World), Op("skipNext", "", 0))
SkipPrevious == Room(World) /\ User(skipPrevious(World), Op("skipPrevious", "", 0))
PlayBGMTrack == \E k \in IndexInputs :
  Room(World) /\ User(playBGMTrack(World, k), Op("playBGMTrack", "", k))
PlayEventTrack == \E k \in IndexInputs :
  Room(World) /\ User(playEventTrack(World, k), Op("playEventTrack", "", k))
Pause == User(pause(World), Op("pause", "", 0))
Resume == audio.src # 0 /\ User(resume(World), Op("resume", "", 0))
\* setVolume(v) starts no transition: it is not counted among the operations
\* issued while a transition is pending.
SetVolume == \E v \in VolumeInputs :
  /\ lastOp.name # "new"
  /\ ops < MaxOps
  /\ Commit(setVolume(World, v))
  /\ ops' = ops + 1
  /\ lastOp' = Op("setVolume", "", v)
  /\ UNCHANGED <<missing, races, left, scan, setup, controls, search>>
\* cleanup() ends the play session: no user operation follows it and no
\* request is outstanding.
Cleanup ==
  /\ lastOp.name # "new"
  /\ ops < MaxOps
  /\ Settled \/ races < MaxRaces
  /\ Commit([cleanup(World) EXCEPT !.lastReq = 0])
  /\ ops' = MaxOps
  /\ races' = IF Settled THEN races ELSE races + 1
  /\ lastOp' = Op("cleanup", "", 0)
  /\ UNCHANGED <<missing, left, scan, setup, controls, search>>

\* getFileURL resolves for the call at position ci.
UrlResolved == \E ci \in 1..Len(calls) :
  /\ calls[ci].pc = "url"
  /\ calls[ci].track \notin missing
  /\ Env(swapSource(World, ci), Op("env", "", 0))

\* getFileURL rejects for the call at position ci.
UrlRejected == \E ci \in 1..Len(calls) :
  /\ calls[ci].pc = "url"
  /\ calls[ci].track \in missing
  /\ HasFreeTimer(World)
  /\ Env(loadFailed(World, ci), Op("reject", "", calls[ci].track))

\* The play() promise of the call at position ci settles.
PlaySettled == \E ci \in 1..Len(calls) :
  /\ calls[ci].pc = "play"
  /\ HasFreeTimer(World)
  /\ Env(fadeIn(World, ci), Op("env", "", 0))

\* An interval timer fires.
FadeTick == \E t \in TimerIds :
  /\ timers[t].kind # "free"
  /\ Env(fadeTick(World, t), Op("tick", "", t))

\* Playback has started: the play() promise of the call that set the source
\* has settled.
Started == \A ci \in 1..Len(calls) : calls[ci].pc # "play"

\* No fade is running: every timer alive has done the ticks of its fade.
NoFadeRunning ==
  \A t \in TimerIds : timers[t].kind = "free" \/ timers[t].step >= FadeSteps

\* Playback advances by one position unit.  A unit is longer than a fade
\* (FADE_DURATION_MS) and than the resolution of a file URL, so the position
\* does not move while a fade is running or a load is pending.
TimeTick ==
  /\ NoFadeRunning
  /\ calls = <<>>
  /\ ~audio.paused
  /\ audio.src # 0
  /\ audio.currentTime < TrackLen
  /\ Env([World EXCEPT !.audio.currentTime = audio.currentTime + 1], Op("env", "", 0))

\* Playback reaches the end of the track.
Ended ==
  /\ ~audio.paused
  /\ audio.src # 0
  /\ audio.currentTime >= TrackLen
  /\ Started
  /\ Room(World)
  /\ Env(onEnded(World), Op("ended", "", 0))

Next ==
  \/ FirstPart
  \/ LoadPart \/ PlayBGM \/ StartEvent \/ StopEvent
  \/ SkipNext \/ SkipPrevious \/ PlayBGMTrack \/ PlayEventTrack
  \/ Pause \/ Resume \/ SetVolume \/ Cleanup
  \/ UrlResolved \/ UrlRejected \/ PlaySettled \/ FadeTick \/ TimeTick \/ Ended

Spec == Init /\ [][Next]_vars

\* Nothing is pending and the user may still act in a serial session.
Idle == Settled /\ ops < MaxSerialOps

\* The user has stopped acting in a serial session.
UserDone == ops >= MaxSerialOps

\* The engine used without overlapping requests: the user acts only when no
\* transition is pending.  Promises settle, timers fire and playback advances.
SerialNext ==
  \/ FirstPart
  \/ (Idle /\ LoadPart) \/ (Idle /\ PlayBGM) \/ (Idle /\ StartEvent)
  \/ (Idle /\ StopEvent) \/ (Idle /\ SkipNext) \/ (Idle /\ SkipPrevious)
  \/ (Idle /\ PlayBGMTrack) \/ (Idle /\ PlayEventTrack)
  \/ (Idle /\ Pause) \/ (Idle /\ Resume) \/ (Idle /\ SetVolume)
  \/ (Idle /\ Cleanup)
  \/ UrlResolved \/ UrlRejected \/ PlaySettled \/ FadeTick \/ TimeTick \/ Ended

SerialSpec ==
  /\ Init /\ [][SerialNext]_vars
  /\ WF_vars(FirstPart)
  /\ WF_vars(UrlResolved) /\ WF_vars(UrlRejected) /\ WF_vars(PlaySettled)
  /\ WF_vars(FadeTick) /\ WF_vars(TimeTick) /\ WF_vars(Ended)

\* ---------------------------------------------------------------------------
\* The folder scanner (sessionScanner.ts)
\* ---------------------------------------------------------------------------
\* A directory under a category directory is named "act" followed by a digit
\* sequence, and the digit sequence models the name: <<1, 0>> is act10, <<0, 1>>
\* is act01 and <<>> is a directory named "act".  A file is named by a number,
\* which gives the order of localeCompare, and an extension.  Entry names are
\* lower case but for the extensions "MD" and "MP3".

SESSION_FOLDERS == <<"characters", "images", "maps", "music", "plan", "threats">>
Categories == {SESSION_FOLDERS[i] : i \in 1..Len(SESSION_FOLDERS)}
SUPPORTED_MARKDOWN_EXTENSIONS == {"md", "markdown"}
SUPPORTED_IMAGE_EXTENSIONS == {"jpg", "jpeg", "png", "gif", "webp", "svg"}
SUPPORTED_AUDIO_EXTENSIONS == {"mp3", "wav", "ogg", "flac", "m4a"}

DirNames == {<<1>>, <<2>>, <<1, 0>>, <<0, 1>>, <<>>}
File(n, e) == [name |-> n, ext |-> e]
NoFile == [path |-> [dir |-> "", act |-> <<>>, sub |-> 0, file |-> File(0, "")],
           name |-> File(0, ""), type |-> "none"]

\* the files every directory of a tree holds
FileChoices ==
  { {},
    {File(2, "md"), File(1, "markdown"), File(3, "png"), File(4, "mp3"), File(5, "txt")},
    {File(1, "MD"), File(3, "MP3"), File(2, "wav")} }
\* the subfolders every music/act<N> directory of a tree holds
SubChoices ==
  { {},
    {[name |-> 1, files |-> {File(5, "txt")}]},
    {[name |-> 1, files |-> {File(2, "mp3"), File(1, "ogg")}],
     [name |-> 2, files |-> {File(1, "mp3"), File(5, "txt")}],
     [name |-> 3, files |-> {}]} }
\* the category directories that exist without any subdirectory
BareChoices == {{}, {"music", "maps"}, {"plan", "images"}}
\* the orders in which a directory's entries are enumerated
Orders == {"asc", "desc"}

RECURSIVE DirSets(_)
DirSets(n) ==
  IF n = 0 THEN {{}}
  ELSE LET S == DirSets(n - 1)
       IN S \cup {d \cup {p} : d \in S, p \in Categories \X DirNames}

\* The directory trees scanned: tree.dirs are the <<category, name>> pairs of
\* the subdirectories of the category directories.
Trees == [dirs : DirSets(MaxActDirs), bare : BareChoices,
          files : FileChoices, subs : SubChoices, broken : {NoBroken}, pcs : {{}}]

\* ACT_PATTERN = /^act(\d+)$/i
ACT_PATTERN(d) == Len(d) >= 1

\* parseInt of the digits ACT_PATTERN captures
RECURSIVE parseInt(_)
parseInt(d) ==
  IF d = <<>> THEN 0 ELSE parseInt(SubSeq(d, 1, Len(d) - 1)) * 10 + d[Len(d)]

toLowerCase(e) ==
  CASE e = "MD" -> "md" [] e = "MP3" -> "mp3"
    [] e = "A" -> "a" [] e = "C" -> "c" [] e = "E" -> "e" [] OTHER -> e

\* The values of the pairs [k, v] of P by ascending key k.
RECURSIVE SortByKey(_)
SortByKey(P) ==
  IF P = {} THEN <<>>
  ELSE LET m == CHOOSE x \in P : \A y \in P : x.k <= y.k
       IN <<m.v>> \o SortByKey(P \ {m})

Reverse(seq) == [i \in 1..Len(seq) |-> seq[Len(seq) + 1 - i]]

\* handle.entries(): the entries in the order the platform enumerates them
entries(P, ord) == IF ord = "asc" THEN SortByKey(P) ELSE Reverse(SortByKey(P))

CatKey(c) == CHOOSE i \in 1..Len(SESSION_FOLDERS) : SESSION_FOLDERS[i] = c
DirKey(d) == parseInt(d) * 10 + Len(d)

\* the category directory c exists
Exists(t, c) ==
  \/ c \in t.bare
  \/ \E d \in DirNames : <<c, d>> \in t.dirs
  \/ c = "characters" /\ t.pcs # {}

\* the subdirectories of the category directory c, as enumerated
SubDirs(t, c, ord) ==
  entries({[k |-> DirKey(d), v |-> d] : d \in {x \in DirNames : <<c, x>> \in t.dirs}}, ord)

\* detectActs: the act names met while walking the category directories
RECURSIVE ActsIn(_, _, _)
ActsIn(t, cats, ord) ==
  IF cats = <<>> THEN <<>>
  ELSE SelectSeq(SubDirs(t, Head(cats), ord), ACT_PATTERN) \o ActsIn(t, Tail(cats), ord)

\* new Set<string>(): insertion order, first occurrence kept
RECURSIVE Distinct(_)
Distinct(seq) ==
  IF seq = <<>> THEN <<>>
  ELSE LET r == Distinct(SubSeq(seq, 1, Len(seq) - 1))
           x == seq[Len(seq)]
       IN IF \E i \in 1..Len(r) : r[i] = x THEN r ELSE Append(r, x)

\* Array.prototype.sort by act number: stable
RECURSIVE SortActs(_)
SortActs(seq) ==
  IF seq = <<>> THEN <<>>
  ELSE LET r == SortActs(SubSeq(seq, 1, Len(seq) - 1))
           x == seq[Len(seq)]
       IN SelectSeq(r, LAMBDA y : parseInt(y) <= parseInt(x)) \o <<x>>
            \o SelectSeq(r, LAMBDA y : parseInt(y) > parseInt(x))

\* detectActs(handle)
detectActs(t, ord) ==
  LET cats == entries({[k |-> CatKey(c), v |-> c] :
                         c \in {x \in Categories : Exists(t, x)}}, ord)
  IN SortActs(Distinct(ActsIn(t, cats, ord)))

Path(c, a, s, f) == [dir |-> c, act |-> a, sub |-> s, file |-> f]

\* getSubdirectory(handle, c, actName) is not null: the directory exists and
\* getDirectoryHandle() does not throw
getSubdirectory(t, c, actName) ==
  /\ <<c, actName>> \in t.dirs
  /\ ~(t.broken.kind = "open" /\ t.broken.dir = <<c, actName>>)

\* getFilesFromDirectory(handle, basePath, extensions): the files with one of
\* the extensions, sorted by name; base is the base path with its file left open
getFilesFromDirectory(files, base, extensions) ==
  SortByKey({[k |-> f.name, v |-> [name |-> f, path |-> [base EXCEPT !.file = f]]] :
               f \in {x \in files : toLowerCase(x.ext) \in extensions}})

\* createFileReference(file, type) and createAudioFile(file), over a list
createFileReference(fs, type) ==
  [i \in 1..Len(fs) |-> [path |-> fs[i].path, name |-> fs[i].name, type |-> type]]

\* fileNameToDisplayName(fileName)
fileNameToDisplayName(f) == [kind |-> "display", file |-> f.name, act |-> <<>>]

\* getActDisplayName(handle, actName), or `Act ${actNumber}` when it is null
ActDisplayName(t, actName) ==
  LET planFiles == IF getSubdirectory(t, "plan", actName)
                     THEN getFilesFromDirectory(t.files, Path("plan", actName, 0, NoFile.name),
                                                SUPPORTED_MARKDOWN_EXTENSIONS)
                     ELSE <<>>
  IN IF planFiles = <<>> THEN [kind |-> "Act", file |-> 0, act |-> actName]
     ELSE fileNameToDisplayName(planFiles[1].name)

\* A loop over the subfolders of music/act<N> that keeps the empty playlists.
eventPlaylists_keepEmpty(t, actName, ord) ==
  LET subs == entries({[k |-> s.name, v |-> s] : s \in t.subs}, ord)
  IN [i \in 1..Len(subs) |->
        [name |-> subs[i].name,
         tracks |-> createFileReference(
            getFilesFromDirectory(subs[i].files, Path("music", actName, subs[i].name, NoFile.name),
                                  SUPPORTED_AUDIO_EXTENSIONS), "audio")]]

\* scanActFolder's loop over the subfolders of music/act<N>
eventPlaylists(t, actName, ord) ==
  LET subs == entries({[k |-> s.name, v |-> s] : s \in t.subs}, ord)
      lists == [i \in 1..Len(subs) |->
        [name |-> subs[i].name,
         tracks |-> createFileReference(
            getFilesFromDirectory(subs[i].files, Path("music", actName, subs[i].name, NoFile.name),
                                  SUPPORTED_AUDIO_EXTENSIONS), "audio")]]
  IN SelectSeq(lists, LAMBDA l : Len(l.tracks) > 0)

\* A scan of an act that keeps the first plan file and drops the other ones.
scanActFolder_dropRest(t, actName, partName, ord) ==
  LET In(c, extensions, type) ==
        IF getSubdirectory(t, c, actName)
          THEN createFileReference(
                 getFilesFromDirectory(t.files, Path(c, actName, 0, NoFile.name), extensions),
                 type)
          ELSE <<>>
      planFiles == In("plan", SUPPORTED_MARKDOWN_EXTENSIONS, "markdown")
  IN [name |-> partName,
      act |-> actName,
      planFile |-> IF Len(planFiles) > 0 THEN planFiles[1] ELSE NoFile,
      images |-> In("images", SUPPORTED_IMAGE_EXTENSIONS, "image"),
      supportDocs |-> In("characters", SUPPORTED_MARKDOWN_EXTENSIONS, "markdown")
                        \o In("threats", SUPPORTED_MARKDOWN_EXTENSIONS, "markdown")
                        \o In("maps", SUPPORTED_MARKDOWN_EXTENSIONS, "markdown"),
      bgmPlaylist |-> In("music", SUPPORTED_AUDIO_EXTENSIONS, "audio"),
      eventPlaylists |-> IF getSubdirectory(t, "music", actName)
                           THEN eventPlaylists(t, actName, ord) ELSE <<>>]

\* scanActFolder(handle, actName, partName); act records the folder name every
\* path of the Part carries
scanActFolder(t, actName, partName, ord) ==
  LET In(c, extensions, type) ==
        IF getSubdirectory(t, c, actName)
          THEN createFileReference(
                 getFilesFromDirectory(t.files, Path(c, actName, 0, NoFile.name), extensions),
                 type)
          ELSE <<>>
      planFiles == In("plan", SUPPORTED_MARKDOWN_EXTENSIONS, "markdown")
  IN [name |-> partName,
      act |-> actName,
      planFile |-> IF Len(planFiles) > 0 THEN planFiles[1] ELSE NoFile,
      images |-> In("images", SUPPORTED_IMAGE_EXTENSIONS, "image"),
      supportDocs |-> (IF Len(planFiles) > 0 THEN Tail(planFiles) ELSE <<>>)
                        \o In("characters", SUPPORTED_MARKDOWN_EXTENSIONS, "markdown")
                        \o In("threats", SUPPORTED_MARKDOWN_EXTENSIONS, "markdown")
                        \o In("maps", SUPPORTED_MARKDOWN_EXTENSIONS, "markdown"),
      bgmPlaylist |-> In("music", SUPPORTED_AUDIO_EXTENSIONS, "audio"),
      eventPlaylists |-> IF getSubdirectory(t, "music", actName)
                           THEN eventPlaylists(t, actName, ord) ELSE <<>>]

EmptyPart(partName) ==
  [name |-> partName, act |-> <<>>, planFile |-> NoFile, images |-> <<>>,
   supportDocs |-> <<>>, bgmPlaylist |-> <<>>, eventPlaylists |-> <<>>]

\* One round of scanForSinglePart's loop over SESSION_FOLDERS.
singlePartStep(t, acc, folderName) ==
  IF ~Exists(t, folderName) THEN acc
  ELSE LET extensions == IF folderName = "images" THEN SUPPORTED_IMAGE_EXTENSIONS
                         ELSE IF folderName = "music" THEN SUPPORTED_AUDIO_EXTENSIONS
                         ELSE SUPPORTED_MARKDOWN_EXTENSIONS
           type == IF folderName = "images" THEN "image"
                   ELSE IF folderName = "music" THEN "audio" ELSE "markdown"
           files == createFileReference(
                      getFilesFromDirectory(t.files, Path(folderName, <<>>, 0, NoFile.name),
                                            extensions), type)
           hasContent == acc.hasContent \/ Len(files) > 0
       IN IF folderName = "plan"
            THEN IF Len(files) = 0 THEN acc
                 ELSE [part |-> [acc.part EXCEPT !.planFile = files[1],
                                                 !.supportDocs = @ \o Tail(files)],
                       hasContent |-> TRUE]
          ELSE IF folderName = "images"
            THEN [part |-> [acc.part EXCEPT !.images = files], hasContent |-> hasContent]
          ELSE IF folderName = "music"
            THEN [part |-> [acc.part EXCEPT !.bgmPlaylist = files], hasContent |-> hasContent]
          ELSE [part |-> [acc.part EXCEPT !.supportDocs = @ \o files],
                hasContent |-> hasContent]

RECURSIVE singlePartLoop(_, _, _)
singlePartLoop(t, acc, i) ==
  IF i > Len(SESSION_FOLDERS) THEN acc
  ELSE singlePartLoop(t, singlePartStep(t, acc, SESSION_FOLDERS[i]), i + 1)

\* A fallback scan that returns its Part whether or not it found a file.
scanForSinglePart_always(t, partName) ==
  [singlePartLoop(t, [part |-> EmptyPart(partName), hasContent |-> FALSE], 1)
     EXCEPT !.hasContent = TRUE]

\* scanForSinglePart(handle, partName): the Part, and whether it is returned
scanForSinglePart(t, partName) ==
  singlePartLoop(t, [part |-> EmptyPart(partName), hasContent |-> FALSE], 1)

\* A line of a character sheet: the kind of its text and the digit strings in
\* it.  The kinds stand for "HP: n", "Hit Points: n", "Max HP: n", "HP: m/n",
\* "SP n", "| HP | n |", "**HP** n", "Health: n", "AC: n", "Armor Class: n",
\* "DEF n", "Defense: n", "EAC n", "KAC n", "| AC | n |", "**AC** n" and
\* "Defence: n".
Line(kind, nums) == [kind |-> kind, nums |-> nums]

\* HP_PATTERNS: for each regular expression, the kinds of line it matches and
\* the digit string of the line its group captures.  /\bHP\s*[:=]?\s*(\d+)/i
\* also matches inside "Max HP: n" and captures the m of "HP: m/n".
HP_PATTERNS ==
  << [kinds |-> {"hp", "maxhp", "hpslash"}, group |-> 1],
     [kinds |-> {"hitpoints"}, group |-> 1],
     [kinds |-> {"maxhp"}, group |-> 1],
     [kinds |-> {"hpslash"}, group |-> 2],
     [kinds |-> {"sp"}, group |-> 1],
     [kinds |-> {"hprow"}, group |-> 1],
     [kinds |-> {"hpbold"}, group |-> 1],
     [kinds |-> {"health"}, group |-> 1] >>

\* DEF_PATTERNS; /\bDef(?:ense)?\s*[:=]?\s*(\d+)/i does not match "Defence: n"
DEF_PATTERNS ==
  << [kinds |-> {"ac"}, group |-> 1],
     [kinds |-> {"armorclass"}, group |-> 1],
     [kinds |-> {"def", "defense"}, group |-> 1],
     [kinds |-> {"eac"}, group |-> 1],
     [kinds |-> {"kac"}, group |-> 1],
     [kinds |-> {"acrow"}, group |-> 1],
     [kinds |-> {"acbold"}, group |-> 1],
     [kinds |-> {"defence"}, group |-> 1] >>

\* content.match(pattern)[1]: the digits captured in the first line of the
\* content the pattern matches, <<>> when it matches none
contentMatch(content, pattern) ==
  LET hits == SelectSeq(content, LAMBDA l : l.kind \in pattern.kinds)
  IN IF hits = <<>> THEN <<>> ELSE Head(hits).nums[pattern.group]

\* the null of a stat that was not found
NoStat == -1

\* A stat extraction that returns the largest number any pattern captures.
RECURSIVE extractStat_largest(_, _)
extractStat_largest(content, patterns) ==
  IF patterns = <<>> THEN NoStat
  ELSE LET match == contentMatch(content, Head(patterns))
           value == parseInt(match)
           rest == extractStat_largest(content, Tail(patterns))
       IN IF match # <<>> /\ value > 0 /\ value > rest THEN value ELSE rest

\* extractStat(content, patterns)
RECURSIVE extractStat(_, _)
extractStat(content, patterns) ==
  IF patterns = <<>> THEN NoStat
  ELSE LET match == contentMatch(content, Head(patterns))
           value == parseInt(match)
       IN IF match # <<>> /\ value > 0 THEN value
          ELSE extractStat(content, Tail(patterns))

\* The markdown files of characters/PCs with a non-empty name, sorted by name
\* with localeCompare.
pcFiles(t) ==
  LET rank(n) == CASE n = "Ann" -> 1 [] n = "Bob" -> 2 [] OTHER -> 3
  IN SortByKey({[k |-> rank(f.name), v |-> f] :
                  f \in {x \in t.pcs : /\ toLowerCase(x.ext) \in SUPPORTED_MARKDOWN_EXTENSIONS
                                       /\ x.name # ""}})

\* detectPlayerCharacters(handle)
detectPlayerCharacters(t) == [i \in 1..Len(pcFiles(t)) |-> pcFiles(t)[i].name]

\* detectPlayerCharacterStats(handle)
detectPlayerCharacterStats(t) ==
  [i \in 1..Len(pcFiles(t)) |->
     [name |-> pcFiles(t)[i].name,
      maxHP |-> extractStat(pcFiles(t)[i].content, HP_PATTERNS),
      defense |-> extractStat(pcFiles(t)[i].content, DEF_PATTERNS)]]

PartOne == [kind |-> "Part 1", file |-> 0, act |-> <<>>]

\* scanSessionFolder(handle): the Parts of the SessionConfig
scanSessionFolder(t, ord) ==
  LET acts == detectActs(t, ord)
  IN IF Len(acts) = 0
       THEN LET part == scanForSinglePart(t, PartOne)
            IN IF part.hasContent THEN <<part.part>> ELSE <<>>
     ELSE [i \in 1..Len(acts) |->
             scanActFolder(t, acts[i], ActDisplayName(t, acts[i]), ord)]

\* scanSessionFolder(handle) rejects: a `for await (... of entries())` loop of
\* getFilesFromDirectory, which no try/catch encloses, throws in a directory
\* the scan of some act has opened
scanRejects(t, ord) ==
  LET acts == detectActs(t, ord)
  IN \E i \in 1..Len(acts) : \E c \in Categories :
       /\ getSubdirectory(t, c, acts[i])
       /\ t.broken.kind = "list"
       /\ t.broken.dir = <<c, acts[i]>>

\* A folder is chosen for scanning; the engine does not exist yet.
ScanInit ==
  /\ EngineInit
  /\ missing = {}
  /\ scan \in [tree : Trees, results : {<<>>}, rejected : {<<>>}, players : {<<>>},
               stats : {<<>>}]
  /\ setup = NoSetup
  /\ controls = NoControls
  /\ search = NoSearch

\* The folder is scanned, its entries enumerated in some order.
ScanRun == \E ord \in Orders :
  /\ Len(scan.results) < MaxScans
  /\ scan' = [scan EXCEPT
                !.results = Append(@, IF scanRejects(scan.tree, ord) THEN <<>>
                                      ELSE scanSessionFolder(scan.tree, ord)),
                !.rejected = Append(@, scanRejects(scan.tree, ord)),
                !.players = Append(@, detectPlayerCharacters(scan.tree)),
                !.stats = Append(@, detectPlayerCharacterStats(scan.tree))]
  /\ UNCHANGED <<am, audio, timers, calls, abandoned, lastReq, missing, ops, races,
                 left, setup, controls, search, lastOp>>

ScanNext == ScanRun

ScanSpec == ScanInit /\ [][ScanNext]_vars

\* A folder is chosen for scanning in which one subdirectory of a category
\* directory cannot be read: getDirectoryHandle() fails on it ("open"), or it
\* opens and the iteration of its entries() fails ("list").
UnreadableInit ==
  /\ EngineInit
  /\ missing = {}
  /\ \E t \in Trees : \E k \in {"open", "list"} : \E p \in t.dirs :
       scan = [NoScan EXCEPT !.tree = [t EXCEPT !.broken = [kind |-> k, dir |-> p]]]
  /\ setup = NoSetup
  /\ controls = NoControls
  /\ search = NoSearch

UnreadableSpec == UnreadableInit /\ [][ScanNext]_vars

\* ---------------------------------------------------------------------------
\* The setup page and the configuration files (src/lib/configManager.ts)
\* ---------------------------------------------------------------------------

\* The SessionConfig object scanSessionFolder(handle) returns.
SessionConfigOf(t, ord) ==
  LET ref(r) == Obj([path |-> Str(r.path), name |-> Str(r.name), type |-> Str(r.type)])
      refs(rs) == Arr([i \in 1..Len(rs) |-> ref(rs[i])])
      parts == scanSessionFolder(t, ord)
      stats == detectPlayerCharacterStats(t)
      names == detectPlayerCharacters(t)
      stat(v) == IF v = NoStat THEN Null ELSE Num(v)
  IN Obj([folderName |-> Str("campaign"),
          parts |-> Arr([i \in 1..Len(parts) |->
            Obj([id |-> Str(i),
                 name |-> Str(parts[i].name),
                 planFile |-> IF parts[i].planFile = NoFile THEN Null
                              ELSE ref(parts[i].planFile),
                 images |-> refs(parts[i].images),
                 supportDocs |-> refs(parts[i].supportDocs),
                 bgmPlaylist |-> refs(parts[i].bgmPlaylist),
                 eventPlaylists |-> Arr([k \in 1..Len(parts[i].eventPlaylists) |->
                   Obj([id |-> Str(k),
                        name |-> Str(parts[i].eventPlaylists[k].name),
                        tracks |-> refs(parts[i].eventPlaylists[k].tracks)])])])]),
          playerCharacters |-> Arr([i \in 1..Len(names) |-> Str(names[i])]),
          pcStats |-> Arr([i \in 1..Len(stats) |->
            Obj([name |-> Str(stats[i].name),
                 maxHP |-> stat(stats[i].maxHP),
                 defense |-> stat(stats[i].defense)])])])

\* the property names of the objects, in the order JSON.stringify writes them
Keys == <<"folderName", "parts", "playerCharacters", "pcStats", "id", "name",
          "planFile", "images", "supportDocs", "bgmPlaylist", "eventPlaylists",
          "tracks", "path", "type", "maxHP", "defense">>

\* A serialisation that leaves out the members whose value is null.
RECURSIVE JSON_stringify_skipNull(_), skipNullMembers(_, _), skipNullItems(_, _)
JSON_stringify_skipNull(v) ==
  CASE v.t = "object" -> [k |-> "{}", members |-> skipNullMembers(v.o, Len(Keys))]
    [] v.t = "array" -> [k |-> "[]", items |-> skipNullItems(v.a, Len(v.a))]
    [] v.t = "string" -> [k |-> "text", chars |-> v.s]
    [] v.t = "number" -> [k |-> "digits", value |-> v.n]
    [] OTHER -> [k |-> "null"]
skipNullMembers(o, n) ==
  IF n = 0 THEN <<>>
  ELSE IF Keys[n] \in DOMAIN o /\ o[Keys[n]].t # "null"
    THEN Append(skipNullMembers(o, n - 1),
                [key |-> Keys[n], value |-> JSON_stringify_skipNull(o[Keys[n]])])
  ELSE skipNullMembers(o, n - 1)
skipNullItems(a, n) ==
  IF n = 0 THEN <<>>
  ELSE Append(skipNullItems(a, n - 1), JSON_stringify_skipNull(a[n]))

\* JSON.stringify(config, null, 2): the text, as the tree of its syntax; the
\* members of an object are written in the order of its properties
RECURSIVE JSON_stringify(_), stringifyMembers(_, _), stringifyItems(_, _)
JSON_stringify(v) ==
  CASE v.t = "object" -> [k |-> "{}", members |-> stringifyMembers(v.o, Len(Keys))]
    [] v.t = "array" -> [k |-> "[]", items |-> stringifyItems(v.a, Len(v.a))]
    [] v.t = "string" -> [k |-> "text", chars |-> v.s]
    [] v.t = "number" -> [k |-> "digits", value |-> v.n]
    [] OTHER -> [k |-> "null"]
stringifyMembers(o, n) ==
  IF n = 0 THEN <<>>
  ELSE IF Keys[n] \in DOMAIN o
    THEN Append(stringifyMembers(o, n - 1),
                [key |-> Keys[n], value |-> JSON_stringify(o[Keys[n]])])
  ELSE stringifyMembers(o, n - 1)
stringifyItems(a, n) ==
  IF n = 0 THEN <<>>
  ELSE Append(stringifyItems(a, n - 1), JSON_stringify(a[n]))

\* JSON.parse(text), for a text that is JSON; of two members with the same
\* key the later one counts
RECURSIVE JSON_parse(_), parseMembers(_, _), parseItems(_, _)
JSON_parse(x) ==
  CASE x.k = "{}" -> Obj(parseMembers(x.members, Len(x.members)))
    [] x.k = "[]" -> Arr(parseItems(x.items, Len(x.items)))
    [] x.k = "text" -> Str(x.chars)
    [] x.k = "digits" -> Num(x.value)
    [] OTHER -> Null
parseMembers(members, n) ==
  IF n = 0 THEN <<>>
  ELSE (members[n].key :> JSON_parse(members[n].value)) @@ parseMembers(members, n - 1)
parseItems(items, n) ==
  IF n = 0 THEN <<>>
  ELSE Append(parseItems(items, n - 1), JSON_parse(items[n]))

\* validateFileReference(ref)
validateFileReference(ref) ==
  /\ ref.t = "object"
  /\ \A k \in {"path", "name", "type"} : k \in DOMAIN ref.o /\ ref.o[k].t = "string"
  /\ ref.o.type.s \in {"markdown", "image", "audio"}

\* validateEventPlaylist(playlist)
validateEventPlaylist(playlist) ==
  /\ playlist.t = "object"
  /\ \A k \in {"id", "name"} : k \in DOMAIN playlist.o /\ playlist.o[k].t = "string"
  /\ "tracks" \in DOMAIN playlist.o
  /\ playlist.o.tracks.t = "array"
  /\ \A i \in 1..Len(playlist.o.tracks.a) : validateFileReference(playlist.o.tracks.a[i])

\* validatePart(part)
validatePart(part) ==
  /\ part.t = "object"
  /\ \A k \in {"id", "name"} : k \in DOMAIN part.o /\ part.o[k].t = "string"
  /\ "planFile" \in DOMAIN part.o
  /\ part.o.planFile.t = "null" \/ validateFileReference(part.o.planFile)
  /\ \A k \in {"images", "supportDocs", "bgmPlaylist"} :
       /\ k \in DOMAIN part.o
       /\ part.o[k].t = "array"
       /\ \A i \in 1..Len(part.o[k].a) : validateFileReference(part.o[k].a[i])
  /\ "eventPlaylists" \in DOMAIN part.o
  /\ part.o.eventPlaylists.t = "array"
  /\ \A i \in 1..Len(part.o.eventPlaylists.a) :
       validateEventPlaylist(part.o.eventPlaylists.a[i])

\* validateConfig(config)
validateConfig(config) ==
  /\ config.t = "object"
  /\ "folderName" \in DOMAIN config.o
  /\ config.o.folderName.t = "string"
  /\ "parts" \in DOMAIN config.o
  /\ config.o.parts.t = "array"
  /\ \A i \in 1..Len(config.o.parts.a) : validatePart(config.o.parts.a[i])

\* importConfig(), with the file chosen in the dialog: NoText when the dialog
\* is cancelled or closed without a file, text that is not JSON otherwise
\* (JSON.parse throws), or a JSON text
importConfig(file) ==
  IF file.k \in {"none", "garbage"} THEN Null
  ELSE CHOOSE result \in {IF validateConfig(config) THEN config ELSE Null :
                            config \in {JSON_parse(file)}} : TRUE

\* An import handler that asks for the folder again whatever the outcome.
handleImportConfig_always(s, file) ==
  IF importConfig(file).t # "null"
    THEN [s EXCEPT !.config = importConfig(file), !.folderSelected = FALSE]
    ELSE [s EXCEPT !.folderSelected = FALSE]

\* handleImportConfig()
handleImportConfig(s, file) ==
  IF importConfig(file).t # "null"
    THEN [s EXCEPT !.config = importConfig(file), !.folderSelected = FALSE]
    ELSE s

\* the property k of the object, changed to v ({...config, k: v})
With(obj, k, v) == Obj((k :> v) @@ obj.o)
\* the object without its property k
RECURSIVE Without(_, _)
Without(obj, k) ==
  IF DOMAIN obj.o \subseteq {k} THEN Obj(<<>>)
  ELSE LET x == CHOOSE x \in DOMAIN obj.o : x # k
       IN With(Without(Obj([y \in DOMAIN obj.o \ {x} |-> obj.o[y]]), k), x, obj.o[x])

\* The session folders of the setup page: two acts' worth of files with two
\* character sheets, an act with images only, and a folder without content.
SetupTrees ==
  LET files == {File(2, "md"), File(1, "markdown"), File(3, "png"), File(4, "mp3")}
  IN { [NoTree EXCEPT !.dirs = {<<"plan", <<1>>>>, <<"music", <<1>>>>},
                      !.files = files,
                      !.subs = {[name |-> 1, files |-> {File(2, "mp3")}]},
                      !.pcs = {[name |-> "Ann", ext |-> "md",
                                content |-> <<Line("hp", <<<<3, 0>>>>)>>],
                               [name |-> "Bob", ext |-> "MD", content |-> <<>>]}],
       [NoTree EXCEPT !.dirs = {<<"images", <<2>>>>}, !.files = files],
       NoTree }

\* The files offered to the import dialog: a configuration file and copies of
\* it with one place changed, and a file that is not JSON.
ImportFiles ==
  LET base == SessionConfigOf(CHOOSE t \in SetupTrees : t.pcs # {}, "asc")
      part == base.o.parts.a[1]
      list == part.o.eventPlaylists.a[1]
      track == list.o.tracks.a[1]
      inPart(p) == With(base, "parts", Arr(<<p>>))
      inList(l) == inPart(With(part, "eventPlaylists", Arr(<<l>>)))
      inTrack(r) == inList(With(list, "tracks", Arr(<<r>>)))
  IN {[k |-> "garbage"]} \cup
     {JSON_stringify(v) : v \in
        { base, With(base, "parts", Arr(<<>>)), Without(base, "playerCharacters"),
          Null, Num(1), Str("campaign"), Arr(<<>>),
          Without(base, "folderName"), With(base, "folderName", Num(1)),
          Without(base, "parts"), With(base, "parts", part),
          inPart(Null), inPart(With(part, "id", Num(1))), inPart(Without(part, "name")),
          inPart(With(part, "planFile", Null)), inPart(Without(part, "planFile")),
          inPart(With(part, "planFile", With(part.o.planFile, "type", Str("video")))),
          inPart(With(part, "images", Null)),
          inPart(With(part, "supportDocs", Arr(<<Str("notes.md")>>))),
          inPart(With(part, "bgmPlaylist", Arr(<<Without(track, "path")>>))),
          inPart(With(part, "bgmPlaylist", Arr(<<With(track, "type", Str("markdown"))>>))),
          inPart(Without(part, "eventPlaylists")),
          inList(Num(1)), inList(With(list, "name", Null)), inList(Without(list, "tracks")),
          inTrack(With(track, "type", Str("image"))),
          inTrack(With(track, "type", Str("video"))),
          inTrack(With(track, "name", Num(1))), inTrack(Arr(<<>>)) }}

\* A user operation of the setup page; the page renders only a configuration
\* whose playerCharacters is an array.
SetupOp(s, op) ==
  /\ setup.ops < MaxSetupOps
  /\ "playerCharacters" \in DOMAIN setup.config.o
  /\ setup' = [s EXCEPT !.ops = setup.ops + 1]
  /\ lastOp' = op
  /\ UNCHANGED <<am, audio, timers, calls, abandoned, lastReq, missing, ops, races,
                 left, scan, controls, search>>

\* handleSelectFolder(), the folder picker not cancelled
SelectFolder ==
  SetupOp([setup EXCEPT !.folderSelected = TRUE,
                        !.config = With(setup.config, "folderName", Str("campaign"))],
          Op("selectFolder", "", 0))

\* handleAutoDetect()
AutoDetect == \E ord \in Orders :
  /\ setup.folderSelected
  /\ SetupOp(IF \/ scanRejects(scan.tree, ord)
                 \/ Len(SessionConfigOf(scan.tree, ord).o.parts.a) = 0
                THEN setup
                ELSE [setup EXCEPT !.config = SessionConfigOf(scan.tree, ord)],
             Op("autoDetect", ord, 0))

\* handleAddPC(), with the name typed
AddPC == \E newPCName \in {"Zed", ""} :
  SetupOp(IF newPCName = "" THEN setup
          ELSE [setup EXCEPT !.config =
                  With(@, "playerCharacters",
                       Arr(Append(@.o.playerCharacters.a, Str(newPCName))))],
          Op("addPC", newPCName, 0))

\* handleRemovePC(index)
RemovePC ==
  /\ "playerCharacters" \in DOMAIN setup.config.o
  /\ \E index \in 1..Len(setup.config.o.playerCharacters.a) :
       SetupOp([setup EXCEPT !.config =
                  With(@, "playerCharacters",
                       Arr(RemoveAt(@.o.playerCharacters.a, index)))],
               Op("removePC", "", index))

\* handleExportConfig(): exportConfig(config) downloads the text
ExportConfig ==
  /\ setup.folderSelected
  /\ Len(setup.config.o.parts.a) > 0
  /\ SetupOp([setup EXCEPT !.download = JSON_stringify(setup.config),
                           !.saved = setup.config],
             Op("export", "", 0))

\* handleImportConfig(), with the file the user chooses in the dialog
Import(file) ==
  SetupOp([handleImportConfig(setup, file) EXCEPT
             !.file = file,
             !.result = importConfig(file),
             !.imported = @ \/ importConfig(file).t # "null"],
          Op("import", "", 0))

\* the user chooses one of the prepared files, the file the page last
\* exported, or closes the dialog
ImportConfig ==
  \/ \E file \in ImportFiles : Import(file)
  \/ Import(setup.download)
  \/ Import(NoText)

SetupInit ==
  /\ EngineInit
  /\ missing = {}
  /\ \E t \in SetupTrees : scan = [NoScan EXCEPT !.tree = t]
  /\ setup = NoSetup
  /\ controls = NoControls
  /\ search = NoSearch

SetupNext ==
  SelectFolder \/ AutoDetect \/ AddPC \/ RemovePC \/ ExportConfig \/ ImportConfig

SetupSpec == SetupInit /\ [][SetupNext]_vars

\* ---------------------------------------------------------------------------
\* The playlist search of the audio controls (src/lib/musicSearch.ts)
\* ---------------------------------------------------------------------------

\* text.toLowerCase(), a text being the sequence of its characters
lower(text) == [i \in 1..Len(text) |-> toLowerCase(text[i])]

\* fuzzyMatch(text, query)
fuzzyMatch(text, query) ==
  LET lowerText == lower(text)
      lowerQuery == lower(query)
      loop[textIndex \in 1..(Len(text) + 1), queryIndex \in 1..(Len(query) + 1)] ==
        IF textIndex <= Len(text) /\ queryIndex <= Len(query)
          THEN IF lowerText[textIndex] = lowerQuery[queryIndex]
                 THEN loop[textIndex + 1, queryIndex + 1]
                 ELSE loop[textIndex + 1, queryIndex]
          ELSE queryIndex = Len(query) + 1
  IN IF query = <<>> THEN TRUE
     ELSE IF text = <<>> THEN FALSE
     ELSE loop[1, 1]

\* a score: the fraction num / den
Score(num, den) == [num |-> num, den |-> den]

\* A score that counts contiguous occurrences only.
fuzzyScore_contiguous(text, query) ==
  LET lowerText == lower(text)
      lowerQuery == lower(query)
  IN IF query = <<>> THEN Score(1, 1)
     ELSE IF text = <<>> THEN Score(0, 1)
     ELSE IF lowerText = lowerQuery THEN Score(100, 1)
     ELSE IF \E i \in 1..Len(text) : i + Len(query) - 1 <= Len(text)
                /\ SubSeq(lowerText, i, i + Len(query) - 1) = lowerQuery
       THEN Score(80, 1)
     ELSE Score(0, 1)

\* fuzzyScore(text, query)
fuzzyScore(text, query) ==
  LET lowerText == lower(text)
      lowerQuery == lower(query)
      includes == \E i \in 1..Len(text) :
                    /\ i + Len(query) - 1 <= Len(text)
                    /\ SubSeq(lowerText, i, i + Len(query) - 1) = lowerQuery
      startsWith == /\ Len(query) <= Len(text)
                    /\ SubSeq(lowerText, 1, Len(query)) = lowerQuery
      \* the while loop, from the state v of its variables
      loop[textIndex \in 1..(Len(text) + 1)] ==
        IF textIndex = 1
          THEN [queryIndex |-> 1, consecutiveMatches |-> 0, maxConsecutive |-> 0,
                totalMatches |-> 0]
          ELSE LET v == loop[textIndex - 1]
               IN IF v.queryIndex > Len(query) THEN v
                  ELSE IF lowerText[textIndex - 1] = lowerQuery[v.queryIndex]
                    THEN [queryIndex |-> v.queryIndex + 1,
                          consecutiveMatches |-> v.consecutiveMatches + 1,
                          maxConsecutive |-> Max(v.maxConsecutive, v.consecutiveMatches + 1),
                          totalMatches |-> v.totalMatches + 1]
                    ELSE [v EXCEPT !.consecutiveMatches = 0]
      end == loop[Len(text) + 1]
  IN IF query = <<>> THEN Score(1, 1)
     ELSE IF text = <<>> THEN Score(0, 1)
     ELSE IF lowerText = lowerQuery THEN Score(100, 1)
     ELSE IF includes THEN Score(80, 1)
     ELSE IF startsWith THEN Score(90, 1)
     ELSE IF end.queryIndex <= Len(query) THEN Score(0, 1)
     \* 20 + (totalMatches / text.length) * 30 + (maxConsecutive / query.length) * 30
     ELSE Score(20 * Len(text) * Len(query) + 30 * end.totalMatches * Len(query)
                  + 30 * end.maxConsecutive * Len(text),
                Len(text) * Len(query))

\* a.score < b.score
Less(a, b) == a.num * b.den < b.num * a.den

\* A filter that leaves the matching playlists in their input order.
filterPlaylists_unsorted(playlists, query) ==
  IF \A i \in 1..Len(query) : query[i] = " " THEN playlists
  ELSE SelectSeq(playlists, LAMBDA p : Less(Score(0, 1), fuzzyScore(p.name, query)))

\* filterPlaylists(playlists, query); Array.prototype.sort is stable
filterPlaylists(playlists, query) ==
  LET scored == SelectSeq(playlists, LAMBDA p : Less(Score(0, 1), fuzzyScore(p.name, query)))
      sorted[n \in 0..Len(scored)] ==
        IF n = 0 THEN <<>>
        ELSE LET x == scored[n]
                 before(y) == ~Less(fuzzyScore(y.name, query), fuzzyScore(x.name, query))
             IN SelectSeq(sorted[n - 1], before) \o <<x>>
                  \o SelectSeq(sorted[n - 1], LAMBDA y : ~before(y))
  IN IF \A i \in 1..Len(query) : query[i] = " " THEN playlists
     ELSE sorted[Len(scored)]

Combat == <<"C", "o", "m", "b", "a", "t">>
CalmExploration == <<"C", "a", "l", "m", " ", "E", "x", "p", "l", "o", "r", "a", "t", "i", "o", "n">>

\* The play page hands the event playlists of the current Part to the audio
\* controls: one or two playlists with names of at most MaxTextLen characters,
\* or the playlists Combat and Calm Exploration.
MusicInit ==
  /\ EngineInit
  /\ missing = {}
  /\ scan = NoScan
  /\ setup = NoSetup
  /\ search = NoSearch
  /\ \E names \in {<<Combat, CalmExploration>>}
         \cup UNION {[1..n -> UNION {[1..k -> {"a", "b", "A"}] : k \in 0..MaxTextLen}] :
                       n \in 1..2} :
       controls = [NoControls EXCEPT
                     !.eventPlaylists = [i \in 1..Len(names) |-> [id |-> i, name |-> names[i]]],
                     !.filteredPlaylists = [i \in 1..Len(names) |-> [id |-> i, name |-> names[i]]]]

\* The user types in the search box (setSearchQuery); the controls render the
\* playlists filterPlaylists(eventPlaylists, searchQuery) returns.
SetSearchQuery ==
  \E query \in {<<"c", "m", "b", "t">>}
       \cup UNION {[1..k -> {"a", "A", "b", " "}] : k \in 0..MaxQueryLen} :
    /\ controls' = [controls EXCEPT
         !.searchQuery = query,
         !.filteredPlaylists = filterPlaylists(controls.eventPlaylists, query),
         !.scores = [i \in 1..Len(controls.eventPlaylists) |->
                       fuzzyScore(controls.eventPlaylists[i].name, query)],
         !.matches = [i \in 1..Len(controls.eventPlaylists) |->
                        fuzzyMatch(controls.eventPlaylists[i].name, query)]]
    /\ lastOp' = Op("search", "", Len(query))
    /\ UNCHANGED <<am, audio, timers, calls, abandoned, lastReq, missing, ops, races,
                   left, scan, setup, search>>

MusicNext == SetSearchQuery

MusicSpec == MusicInit /\ [][MusicNext]_vars

\* the digit strings of the lines of a character sheet
StatDigits == {<<0>>, <<3, 0>>, <<4, 5>>}
\* the lines of a character sheet
StatLines ==
  {Line(k, <<d>>) : k \in {"hp", "hitpoints", "maxhp", "hprow", "ac", "defence"},
                    d \in StatDigits}
    \cup {Line("hpslash", <<m, n>>) : m \in StatDigits, n \in StatDigits}

\* A folder is chosen for scanning that holds one character sheet of at most
\* MaxLines lines in characters/PCs.
StatInit ==
  /\ EngineInit
  /\ missing = {}
  /\ \E n \in 0..MaxLines : \E content \in [1..n -> StatLines] : \E e \in {"md", "MD"} :
       scan = [NoScan EXCEPT
                 !.tree.pcs = {[name |-> "Ann", ext |-> e, content |-> content]}]
  /\ setup = NoSetup
  /\ controls = NoControls
  /\ search = NoSearch

StatSpec == StatInit /\ [][ScanNext]_vars

\* ---------------------------------------------------------------------------
\* The document search (class SearchManager, src/unnamed/part_010)
\* ---------------------------------------------------------------------------
\* The index is lunr's: the model keeps of it the refs of the documents added
\* to it.  What Index.search answers is lunr's business: it throws (a query
\* lunr cannot parse), or returns some of the indexed refs in the order of
\* their scores.  The snippet of a result (extractContext) is a function of
\* the stored content and the query alone and is not part of the result here.

SearchPaths == {"a.md", "b.md"}
SearchNames == {"a", "b"}
\* the document lists handed to indexDocuments
DocLists ==
  UNION {[1..n -> [path : SearchPaths, name : SearchNames]] : n \in 0..MaxDocs}
SearchQueries == {<<>>, <<" ">>, <<"o">>, <<" ", "o">>}

\* text.trim()
RECURSIVE trim(_)
trim(text) ==
  IF text = <<>> THEN text
  ELSE IF Head(text) = " " THEN trim(Tail(text))
  ELSE IF text[Len(text)] = " " THEN trim(SubSeq(text, 1, Len(text) - 1))
  ELSE text

\* array.slice(start, end)
slice(array, start, end) ==
  LET from == IF start < 0 THEN Max(Len(array) + start, 0) ELSE Min(start, Len(array))
      to == IF end < 0 THEN Max(Len(array) + end, 0) ELSE Min(end, Len(array))
  IN SubSeq(array, from + 1, to)

\* documents.forEach(doc => this.documents.set(doc.file.path, {name, ...}))
RECURSIVE setAll(_, _, _)
setAll(map, documents, n) ==
  IF n = 0 THEN map
  ELSE (documents[n].path :> [name |-> documents[n].name])
         @@ setAll(map, documents, n - 1)

\* An indexDocuments that adds to the map and to the index it has.
indexDocuments_patch(s, documents) ==
  [s EXCEPT !.documents = setAll(s.documents, documents, Len(documents)),
            !.index = [built |-> TRUE,
                       refs |-> s.index.refs
                                  \cup {documents[i].path : i \in 1..Len(documents)}]]

\* indexDocuments(documents)
indexDocuments(s, documents) ==
  [s EXCEPT !.documents = setAll(<<>>, documents, Len(documents)),
            !.index = [built |-> TRUE,
                       refs |-> {documents[i].path : i \in 1..Len(documents)}]]

\* results.map(result => ...).filter(r => r !== null)
RECURSIVE mapResults(_, _, _)
mapResults(s, refs, n) ==
  IF n = 0 THEN <<>>
  ELSE IF refs[n] \in DOMAIN s.documents
    THEN Append(mapResults(s, refs, n - 1),
                [ref |-> refs[n], name |-> s.documents[refs[n]].name])
  ELSE mapResults(s, refs, n - 1)

\* A search without the try/catch around the index lookup.
SearchManager_search_noCatch(s, query, maxResults, answer) ==
  IF ~s.index.built \/ trim(query) = <<>> THEN [threw |-> FALSE, value |-> <<>>]
  ELSE IF answer.threw THEN [threw |-> TRUE, value |-> <<>>]
  ELSE LET top == slice(answer.refs, 0, maxResults)
       IN [threw |-> FALSE, value |-> mapResults(s, top, Len(top))]

\* search(query, maxResults), with the answer of this.index.search(query);
\* threw: an exception leaves the method
SearchManager_search(s, query, maxResults, answer) ==
  IF ~s.index.built \/ trim(query) = <<>> THEN [threw |-> FALSE, value |-> <<>>]
  ELSE IF answer.threw THEN [threw |-> FALSE, value |-> <<>>]
  ELSE LET top == slice(answer.refs, 0, maxResults)
       IN [threw |-> FALSE, value |-> mapResults(s, top, Len(top))]

\* what Index.search can answer from an index of these refs
Answers(refs) ==
  {[called |-> TRUE, threw |-> TRUE, refs |-> <<>>]}
    \cup {[called |-> TRUE, threw |-> FALSE, refs |-> r] :
            r \in {q \in UNION {[1..n -> refs] : n \in 0..Cardinality(refs)} :
                     \A i, j \in 1..Len(q) : q[i] = q[j] => i = j}}

SearchOp(s, op) ==
  /\ search.ops < MaxSearchOps
  /\ search' = [s EXCEPT !.ops = search.ops + 1]
  /\ lastOp' = op
  /\ UNCHANGED <<am, audio, timers, calls, abandoned, lastReq, missing, ops, races,
                 left, scan, setup, controls>>

\* The play page indexes the documents of the Part it loaded.
IndexDocuments == \E documents \in DocLists :
  SearchOp([indexDocuments(search, documents) EXCEPT
              !.list = documents,
              !.earlier = @ \cup {search.list[i] : i \in 1..Len(search.list)},
              !.builds = Min(@ + 1, 2)],
           Op("index", "", Len(documents)))

\* The search dialog looks a query up.
Search == \E query \in SearchQueries, maxResults \in {0, 1, DefaultMaxResults} :
  \E answer \in IF search.index.built /\ trim(query) # <<>>
                  THEN Answers(search.index.refs) ELSE {NoAnswer} :
    LET outcome == SearchManager_search(search, query, maxResults, answer)
    IN SearchOp([search EXCEPT !.query = query, !.maxResults = maxResults,
                               !.answer = answer, !.results = outcome.value,
                               !.threw = outcome.threw],
                Op("query", "", maxResults))

SearchInit ==
  /\ EngineInit
  /\ missing = {}
  /\ scan = NoScan
  /\ setup = NoSetup
  /\ controls = NoControls
  /\ search = NoSearch

SearchNext == IndexDocuments \/ Search

SearchSpec == SearchInit /\ [][SearchNext]_vars

\* ---------------------------------------------------------------------------
\* Properties
\* ---------------------------------------------------------------------------

\* The fade timers alive, whether or not fadeInterval still refers to them.
LiveTimers == {t \in TimerIds : timers[t].kind # "free"}

\* The most recent loadAndPlayTrack call.
NewCall == calls[Len(calls)]

\* C1: at any moment at most one fade interval timer is live, for every
\* interleaving of track-change requests.
OneFadeTimer == Cardinality(LiveTimers) <= 1

\* C2: once every asynchronous step of the overlapping track-change requests
\* has completed, the track loaded in the channel is the track of the last
\* request (a loadable one); an earlier request never overwrites a later one.
LastRequestWins ==
  (calls = <<>> /\ lastReq # 0 /\ lastReq \notin missing) => audio.src = lastReq

\* C3: when playBGM() switched away from event playlist P at index i and
\* position p, the next startEvent(P.id), with P still loaded and unchanged,
\* activates P at index i and starts its track i at position p.
ResumeMemory ==
  [][\A id \in PlaylistIds :
       (lastOp' = Op("startEvent", id, 1) /\ Resumes(id) /\ Room(World))
         => /\ am'.currentMode = "event"
            /\ am'.currentEventPlaylist = [id |-> id, tracks |-> left[id].tracks]
            /\ am'.currentEventIndex = left[id].trackIndex
            /\ calls' # <<>>
            /\ calls'[Len(calls')].track = left[id].tracks[left[id].trackIndex + 1]
            /\ calls'[Len(calls')].startTime = left[id].currentTime]_vars

\* C3 witness: startEvent("P") has resumed P at its second track, one position
\* unit into it.
ResumeMemoryWitness ==
  /\ lastOp = Op("startEvent", "P", 1)
  /\ am.currentMode = "event"
  /\ am.currentEventPlaylist.id = "P"
  /\ am.currentEventIndex = 1
  /\ calls # <<>>
  /\ NewCall.track = 5
  /\ NewCall.startTime = 1

\* The remembered ambient index and position stopEvent() has to resume at: the
\* saved ones, or the start of the playlist when the saved index is stale.
AmbientMemory ==
  IF am.bgmState.trackIndex < Len(am.bgmTracks)
    THEN am.bgmState
    ELSE [trackIndex |-> 0, currentTime |-> 0]

\* C4: stopEvent() in event mode with a non-empty ambient playlist clears the
\* event playlist, switches to ambient mode and plays the ambient playlist at
\* its own remembered index and position.
StopEventResumesAmbient ==
  [][(lastOp'.name = "stopEvent" /\ am.currentMode = "event"
        /\ Len(am.bgmTracks) > 0 /\ Room(World))
       => /\ am'.currentMode = "bgm"
          /\ am'.currentEventPlaylist = NoPlaylist
          /\ am'.currentBgmIndex = AmbientMemory.trackIndex
          /\ calls' # <<>>
          /\ calls'[Len(calls')].track = am.bgmTracks[AmbientMemory.trackIndex + 1]
          /\ calls'[Len(calls')].startTime = AmbientMemory.currentTime]_vars

\* The index of the other mode's playlist.
OtherIndex(a) == IF a.currentMode = "bgm" THEN a.currentEventIndex ELSE a.currentBgmIndex

\* The index of the active playlist.
ThisIndex(a) == IF a.currentMode = "bgm" THEN a.currentBgmIndex ELSE a.currentEventIndex

\* C5: with the active playlist of n >= 1 tracks at index i, skipNext() moves
\* its index to (i + 1) mod n and skipPrevious() to (i - 1 + n) mod n, and the
\* other mode's index does not change.
SkipMovesByOne ==
  [][(lastOp'.name \in {"skipNext", "skipPrevious"} /\ Room(World)
        /\ Len(ActiveTracks(World)) >= 1)
       => /\ am'.currentMode = am.currentMode
          /\ ThisIndex(am) \in 0..(Len(ActiveTracks(World)) - 1)
          /\ ThisIndex(am') =
               IF lastOp'.name = "skipNext"
                 THEN (ThisIndex(am) + 1) % Len(ActiveTracks(World))
                 ELSE (ThisIndex(am) - 1 + Len(ActiveTracks(World)))
                        % Len(ActiveTracks(World))
          /\ OtherIndex(am') = OtherIndex(am)
          /\ calls' # <<>>
          /\ calls'[Len(calls')].track = ActiveTracks(World)[ThisIndex(am') + 1]]_vars

\* C5 witness: skipNext() has wrapped the three-track ambient playlist from its
\* last track to its first while an event playlist keeps its index 1.
SkipMovesByOneWitness ==
  /\ lastOp.name = "skipNext"
  /\ am.currentMode = "bgm"
  /\ Len(am.bgmTracks) = 3
  /\ am.currentBgmIndex = 0
  /\ am.currentEventIndex = 1
  /\ calls # <<>>
  /\ NewCall.track = 1

\* C6: loadBGM() with the path sequence already loaded (a Part switch in
\* ambient mode, nothing pending, between Parts with the same ambient playlist)
\* preserves the ambient index and its resume position.
SameAmbientKeepsIndex ==
  [][(lastOp'.name = "loadPart" /\ am.currentMode = "bgm" /\ Settled
        /\ Len(am.bgmTracks) > 0 /\ Parts[lastOp'.n].bgm = am.bgmTracks)
       => /\ am'.currentBgmIndex = am.currentBgmIndex
          /\ am'.bgmState = am.bgmState]_vars

\* C7: when a Part with a different, non-empty ambient playlist is loaded and
\* playBGM() runs, the new ambient playlist starts at index 0 and position 0.
NewAmbientStartsAtZero ==
  [][(lastOp'.name = "loadPart" /\ Len(Parts[lastOp'.n].bgm) > 0
        /\ Parts[lastOp'.n].bgm # am.bgmTracks /\ Room(World))
       => /\ am'.currentBgmIndex = 0
          /\ calls' # <<>>
          /\ calls'[Len(calls')].track = Parts[lastOp'.n].bgm[1]
          /\ calls'[Len(calls')].startTime = 0]_vars

\* C10: stopEvent() in event mode with an empty ambient playlist, nothing
\* pending, ends in silence: ambient mode, no event playlist, the channel not
\* playing.
StopEventSilence ==
  [][(lastOp'.name = "stopEvent" /\ am.currentMode = "event" /\ Settled
        /\ Len(am.bgmTracks) = 0)
       => /\ am'.currentMode = "bgm"
          /\ am'.currentEventPlaylist = NoPlaylist
          /\ audio'.paused]_vars

\* The tracks of the active playlist.
Active == ActiveTracks(World)

\* The channel is playing track k of the active playlist.
Playing(k) ==
  /\ k <= Len(Active)
  /\ audio.src = Active[k]
  /\ ~audio.paused
  /\ Started

\* Each 'ended' event moves the active playlist of n >= 1 tracks from index i
\* to (i + 1) mod n and starts loading that track.
EndedAdvances ==
  [][(lastOp'.name = "ended" /\ Len(Active) >= 1)
       => /\ ThisIndex(am') = (ThisIndex(am) + 1) % Len(Active)
          /\ calls' # <<>>
          /\ calls'[Len(calls')].track = Active[ThisIndex(am') + 1]]_vars

\* C8: with every track loadable and no further user action, each natural end
\* of a track advances to (i + 1) mod n and starts that track, so that every
\* track of the active playlist is played again and again.
LoopsForever ==
  /\ EndedAdvances
  /\ \A k \in 1..3 :
       (UserDone /\ missing = {} /\ (\E j \in 1..3 : Playing(j)) /\ k <= Len(Active))
         ~> Playing(k)

\* C8 witness: with the budget of user operations spent, the three-track
\* ambient playlist has wrapped from its last track to its first by 'ended'.
LoopsForeverWitness ==
  /\ UserDone
  /\ missing = {}
  /\ lastOp.name = "ended"
  /\ am.currentMode = "bgm"
  /\ Len(am.bgmTracks) = 3
  /\ am.currentBgmIndex = 0
  /\ calls # <<>>
  /\ NewCall.track = 1

\* A failed load of the current track of the active playlist (n >= 1 tracks,
\* index i) is followed by an attempt at index (i + 1) mod n.
FailureAdvances ==
  [][(lastOp'.name = "reject" /\ Len(Active) >= 1
        /\ lastOp'.n = Active[ThisIndex(am) + 1])
       => /\ ThisIndex(am') = (ThisIndex(am) + 1) % Len(Active)
          /\ calls' # <<>>
          /\ calls'[Len(calls')].track = Active[ThisIndex(am') + 1]]_vars

\* A loadable track of the active playlist is playing and no fade is left.
PlayingLoadable ==
  /\ \E k \in 1..3 : Playing(k)
  /\ audio.src \notin missing
  /\ ~am.isFading
  /\ LiveTimers = {}
  /\ calls = <<>>

SamePlayback ==
  /\ am'.currentMode = am.currentMode
  /\ am'.currentEventPlaylist = am.currentEventPlaylist
  /\ am'.currentBgmIndex = am.currentBgmIndex
  /\ am'.currentEventIndex = am.currentEventIndex
  /\ audio'.src = audio.src
  /\ audio'.paused = audio.paused
  /\ calls' = calls

\* C11: startEvent(id) with an id that is not loaded, or whose playlist has no
\* track, leaves mode, active event playlist, both indices and the channel's
\* source and play/pause state unchanged.
StartEventRejects ==
  [][\A id \in PlaylistIds :
       (lastOp'.name = "startEvent" /\ lastOp'.id = id
          /\ (id \notin DOMAIN am.eventPlaylists \/ Len(am.eventPlaylists[id]) = 0))
         => SamePlayback]_vars

\* C11 witness: startEvent("E") was called on the loaded, empty playlist E
\* while an event track of P was playing.
StartEventRejectsWitness ==
  /\ lastOp.name = "startEvent"
  /\ lastOp.id = "E"
  /\ "E" \in DOMAIN am.eventPlaylists
  /\ am.eventPlaylists["E"] = <<>>
  /\ am.currentMode = "event"
  /\ am.currentEventPlaylist.id = "P"
  /\ ~audio.paused

\* C12: playBGM() with an empty ambient playlist changes nothing: mode, active
\* event playlist, indices, stored resume positions and the channel are the
\* same as before, in ambient and in event mode.
PlayAmbientEmptyNoOp ==
  [][(lastOp'.name = "playBGM" /\ Len(am.bgmTracks) = 0)
       => /\ SamePlayback
          /\ am'.bgmState = am.bgmState
          /\ am'.playlistStates = am.playlistStates]_vars

\* C13: playBGMTrack(k) and playEventTrack(k) with k outside the target
\* playlist (or no active event playlist) change neither mode, indices nor the
\* channel; with k inside they set that playlist's index to k and start the
\* transition to its track k.
SelectionBoundsChecked ==
  [][/\ (lastOp'.name = "playBGMTrack" /\ Room(World))
          => IF lastOp'.n < 0 \/ lastOp'.n >= Len(am.bgmTracks)
               THEN SamePlayback /\ audio' = audio
               ELSE /\ am'.currentBgmIndex = lastOp'.n
                    /\ calls' # <<>>
                    /\ calls'[Len(calls')].track = am.bgmTracks[lastOp'.n + 1]
     /\ (lastOp'.name = "playEventTrack" /\ Room(World))
          => IF \/ am.currentEventPlaylist = NoPlaylist
                \/ lastOp'.n < 0
                \/ lastOp'.n >= Len(am.currentEventPlaylist.tracks)
               THEN SamePlayback /\ audio' = audio
               ELSE /\ am'.currentEventIndex = lastOp'.n
                    /\ calls' # <<>>
                    /\ calls'[Len(calls')].track =
                         am.currentEventPlaylist.tracks[lastOp'.n + 1]]_vars

\* C13 witness: playBGMTrack(3) was rejected on the three-track ambient
\* playlist while its track at index 2 was playing.
SelectionBoundsCheckedWitness ==
  /\ lastOp = Op("playBGMTrack", "", 3)
  /\ Len(am.bgmTracks) = 3
  /\ am.currentMode = "bgm"
  /\ am.currentBgmIndex = 2
  /\ audio.src = 3
  /\ ~audio.paused
  /\ calls = <<>>

\* A fade timer is running: it has ticks of its fade left.
Fading == \E t \in TimerIds : timers[t].kind # "free" /\ timers[t].step < FadeSteps

\* C14: setVolume(v) called while a fade-out or fade-in timer is running
\* updates the stored volume only and does not write the channel's volume.
SetVolumeLeavesFade ==
  [][(lastOp'.name = "setVolume" /\ Fading)
       => /\ audio'.volume = audio.volume
          /\ am'.volume = Max(0, Min(VolumeOne, lastOp'.n))]_vars

\* Both volumes lie in [0, 1].
VolumesInRange ==
  /\ am.volume \in 0..VolumeOne
  /\ audio.volume \in 0..VolumeOne

\* C15: in every reachable state the stored volume and the channel's volume lie
\* in [0, 1]: setVolume(v) clamps v, and a fade tick writes a value between 0
\* and the volume its fade started from or aims at.
VolumeStaysInRange ==
  /\ []VolumesInRange
  /\ [][lastOp'.name = "setVolume" => am'.volume = Max(0, Min(VolumeOne, lastOp'.n))]_vars
  /\ [][lastOp'.name = "tick" => audio'.volume \in 0..timers[lastOp'.n].base]_vars

\* C15 witness: setVolume(1.2) was clamped to 1 in the engine and the channel.
VolumeStaysInRangeWitness ==
  /\ lastOp = Op("setVolume", "", 12)
  /\ am.volume = VolumeOne
  /\ audio.volume = VolumeOne
  /\ ~audio.paused

\* C16: no timer is orphaned: the handle stored in the engine designates the
\* only live timer, so that every live timer can still be cleared.
NoOrphanTimer == \A t \in LiveTimers : am.fadeInterval = t

\* The act numbers found as act<N> subdirectories of the category directories.
ActNumbers(t) ==
  {parseInt(d) : d \in {x \in DirNames : ACT_PATTERN(x)
                                          /\ \E c \in Categories : <<c, x>> \in t.dirs}}

\* C17: the scanner produces exactly one Part per distinct act number found
\* under any category directory, ordered by act number ascending.
OnePartPerAct ==
  \A r \in 1..Len(scan.results) :
    LET parts == scan.results[r]
    IN ActNumbers(scan.tree) # {}
         => /\ Len(parts) = Cardinality(ActNumbers(scan.tree))
            /\ \A n \in ActNumbers(scan.tree) :
                 \E i \in 1..Len(parts) : parseInt(parts[i].act) = n
            /\ \A i, j \in 1..Len(parts) :
                 i < j => parseInt(parts[i].act) < parseInt(parts[j].act)

\* The subfolders of music/act<N> holding a file with an audio extension.
AudioSubs(t) ==
  {s \in t.subs : \E f \in s.files : toLowerCase(f.ext) \in SUPPORTED_AUDIO_EXTENSIONS}

\* C18: every event playlist of every Part the scanner produces has at least
\* one track and is named after its subfolder; a subfolder of music/act<N>
\* without a supported audio file yields no playlist.
PlaylistsNonEmpty ==
  \A r \in 1..Len(scan.results) : \A i \in 1..Len(scan.results[r]) :
    LET part == scan.results[r][i]
    IN /\ \A k \in 1..Len(part.eventPlaylists) :
            /\ Len(part.eventPlaylists[k].tracks) >= 1
            /\ <<"music", part.act>> \in scan.tree.dirs
            /\ \E s \in AudioSubs(scan.tree) : s.name = part.eventPlaylists[k].name
       /\ Len(part.eventPlaylists) <= Cardinality(AudioSubs(scan.tree))

\* C18 witness: a music/act<N> directory with two subfolders holding audio
\* files and one holding none was scanned into a Part with two playlists.
PlaylistsNonEmptyWitness ==
  /\ Len(scan.results) >= 1
  /\ Cardinality(scan.tree.subs) = 3
  /\ Cardinality(AudioSubs(scan.tree)) = 2
  /\ \E i \in 1..Len(scan.results[1]) : Len(scan.results[1][i].eventPlaylists) = 2

\* The extensions that match the category directory c.
MatchingExtensions(c) ==
  IF c = "images" THEN SUPPORTED_IMAGE_EXTENSIONS
  ELSE IF c = "music" THEN SUPPORTED_AUDIO_EXTENSIONS
  ELSE SUPPORTED_MARKDOWN_EXTENSIONS

\* A file with a matching extension lies directly inside a category directory.
HasTopFile(t) ==
  \E c \in Categories :
    Exists(t, c) /\ \E f \in t.files : toLowerCase(f.ext) \in MatchingExtensions(c)

\* The Part has no plan, no images, no support docs and no ambient tracks.
IsEmptyPart(part) ==
  /\ part.planFile = NoFile
  /\ part.images = <<>>
  /\ part.supportDocs = <<>>
  /\ part.bgmPlaylist = <<>>

\* C19: with no act<N> directory under any category directory the scanner
\* returns exactly one Part named "Part 1" if a file with a matching extension
\* lies directly inside some category directory and no Part otherwise; it never
\* returns an empty Part.
FallbackOnePart ==
  \A r \in 1..Len(scan.results) :
    LET parts == scan.results[r]
    IN ActNumbers(scan.tree) = {}
         => IF HasTopFile(scan.tree)
              THEN /\ Len(parts) = 1
                   /\ parts[1].name = PartOne
                   /\ ~IsEmptyPart(parts[1])
              ELSE parts = <<>>

\* C19 witness: a tree without act directories, with music and maps
\* directories holding files, was scanned into the single Part "Part 1" with
\* ambient tracks and no plan.
FallbackOnePartWitness ==
  /\ Len(scan.results) >= 1
  /\ ActNumbers(scan.tree) = {}
  /\ scan.tree.bare = {"music", "maps"}
  /\ Len(scan.results[1]) = 1
  /\ scan.results[1][1].name = PartOne
  /\ scan.results[1][1].planFile = NoFile
  /\ Len(scan.results[1][1].bgmPlaylist) >= 1

\* C20: two runs of the scanner over the same tree yield the same Parts in the
\* same order with the same content in the same order, whatever the order in
\* which directory entries are enumerated.
ScanDeterministic ==
  Len(scan.results) >= 2 => scan.results[1] = scan.results[2]

\* The tree without its unreadable subdirectory.
Absent(t) == [t EXCEPT !.dirs = @ \ {t.broken.dir}, !.broken = NoBroken]

\* C21: when a subdirectory cannot be opened or its entries cannot be
\* enumerated, the scan does not fail and returns what it would have returned
\* had that subdirectory been absent.
UnreadableAsAbsent ==
  \A r \in 1..Len(scan.results) :
    scan.tree.broken.kind # "none"
      => /\ ~scan.rejected[r]
         /\ \E ord \in Orders : scan.results[r] = scanSessionFolder(Absent(scan.tree), ord)

\* The markdown files of the directory c/act of the tree.
MarkdownIn(t, c, act) ==
  IF <<c, act>> \in t.dirs
    THEN {f \in t.files : toLowerCase(f.ext) \in SUPPORTED_MARKDOWN_EXTENSIONS}
    ELSE {}

\* The place of a category in the support documents of a Part.
DocRank(c) == CASE c = "plan" -> 0 [] c = "characters" -> 1 [] c = "threats" -> 2
                [] c = "maps" -> 3 [] OTHER -> 4

\* C22: for each act, planFile is the first markdown file of plan/act<N> by
\* name (none exactly when there is none) and supportDocs lists the remaining
\* plan files, then the markdown files of characters/act<N>, threats/act<N>
\* and maps/act<N>, each group sorted by name; no file appears twice and no
\* plan file is lost.
PlanAndSupportDocs ==
  \A r \in 1..Len(scan.results) : \A i \in 1..Len(scan.results[r]) :
    LET part == scan.results[r][i]
        t == scan.tree
        docs == part.supportDocs
        plan == MarkdownIn(t, "plan", part.act)
    IN part.act # <<>>
         => /\ (part.planFile = NoFile) <=> (plan = {})
            /\ plan # {}
                  => /\ part.planFile.name \in plan
                     /\ part.planFile.path = Path("plan", part.act, 0, part.planFile.name)
                     /\ \A f \in plan : part.planFile.name.name <= f.name
            /\ \A j \in 1..Len(docs) :
                  /\ docs[j].path.dir \in {"plan", "characters", "threats", "maps"}
                  /\ docs[j].path = Path(docs[j].path.dir, part.act, 0, docs[j].name)
                  /\ docs[j].name \in MarkdownIn(t, docs[j].path.dir, part.act)
                  /\ docs[j].type = "markdown"
                  /\ docs[j].path # part.planFile.path
            /\ \A j, k \in 1..Len(docs) :
                  j < k => \/ DocRank(docs[j].path.dir) < DocRank(docs[k].path.dir)
                           \/ /\ docs[j].path.dir = docs[k].path.dir
                              /\ docs[j].name.name < docs[k].name.name
            /\ \A c \in {"plan", "characters", "threats", "maps"} :
                  \A f \in MarkdownIn(t, c, part.act) :
                    \/ part.planFile.path = Path(c, part.act, 0, f)
                    \/ \E j \in 1..Len(docs) : docs[j].path = Path(c, part.act, 0, f)

\* C22 witness: an act with two plan files and two character files was
\* scanned; its support documents are the second plan file, then the two
\* character files.
PlanAndSupportDocsWitness ==
  /\ Len(scan.results) >= 1
  /\ \E i \in 1..Len(scan.results[1]) :
       LET part == scan.results[1][i]
       IN /\ part.act # <<>>
          /\ part.planFile.name = File(1, "markdown")
          /\ Len(part.supportDocs) = 3
          /\ part.supportDocs[1].path = Path("plan", part.act, 0, File(2, "md"))
          /\ part.supportDocs[2].path = Path("characters", part.act, 0, File(1, "markdown"))
          /\ part.supportDocs[3].path = Path("characters", part.act, 0, File(2, "md"))

StatsOfPlayersOnly ==
  LET c == setup.config.o
      stats == IF "pcStats" \in DOMAIN c
                 THEN {c.pcStats.a[i].o.name.s : i \in 1..Len(c.pcStats.a)}
                 ELSE {}
  IN ~setup.imported
       => stats \subseteq {c.playerCharacters.a[i].s : i \in 1..Len(c.playerCharacters.a)}

\* C25: import validation accepts a parsed JSON value exactly if it has the
\* full structure: an object with a string folder name and a parts array;
\* every part with string id and name, a plan that is null or a valid file
\* reference, and arrays of valid file references; every file reference with
\* string path and name and a kind among markdown, image, audio; every event
\* playlist with string id and name and a tracks array of valid audio
\* references.
ImportValidates ==
  LET has(v, k, type) == v.t = "object" /\ k \in DOMAIN v.o /\ v.o[k].t = type
      reference(v) == /\ has(v, "path", "string")
                      /\ has(v, "name", "string")
                      /\ has(v, "type", "string")
                      /\ v.o.type.s \in {"markdown", "image", "audio"}
      references(v, k) == /\ has(v, k, "array")
                          /\ \A i \in 1..Len(v.o[k].a) : reference(v.o[k].a[i])
      playlist(v) == /\ has(v, "id", "string")
                     /\ has(v, "name", "string")
                     /\ references(v, "tracks")
                     /\ \A i \in 1..Len(v.o.tracks.a) : v.o.tracks.a[i].o.type.s = "audio"
      part(v) == /\ has(v, "id", "string")
                 /\ has(v, "name", "string")
                 /\ has(v, "planFile", "null")
                      \/ (has(v, "planFile", "object") /\ reference(v.o.planFile))
                 /\ references(v, "images")
                 /\ references(v, "supportDocs")
                 /\ references(v, "bgmPlaylist")
                 /\ has(v, "eventPlaylists", "array")
                 /\ \A i \in 1..Len(v.o.eventPlaylists.a) : playlist(v.o.eventPlaylists.a[i])
      config(v) == /\ has(v, "folderName", "string")
                   /\ has(v, "parts", "array")
                   /\ \A i \in 1..Len(v.o.parts.a) : part(v.o.parts.a[i])
  IN lastOp.name = "import" /\ setup.file.k \notin {"none", "garbage"}
       => (setup.result.t # "null" <=> config(JSON_parse(setup.file)))

\* C26: a configuration serialised by exportConfig and read back by
\* importConfig is accepted by the validation and equal to the configuration
\* exported, in every field.
RoundTrip ==
  lastOp.name = "import" /\ setup.download # NoText /\ setup.file = setup.download
    => /\ setup.result.t # "null"
       /\ setup.result = setup.saved
       /\ setup.config = setup.saved

\* C26 witness: a scanned configuration with a plan file, an event playlist,
\* two player characters and stats of which some are null was exported and
\* imported again.
RoundTripWitness ==
  /\ lastOp.name = "import"
  /\ setup.download # NoText
  /\ setup.file = setup.download
  /\ setup.config = setup.saved
  /\ Len(setup.config.o.parts.a) = 1
  /\ setup.config.o.parts.a[1].o.planFile.t = "object"
  /\ Len(setup.config.o.parts.a[1].o.eventPlaylists.a) = 1
  /\ Len(setup.config.o.playerCharacters.a) = 2
  /\ setup.config.o.pcStats.a[1].o.maxHP = Num(30)
  /\ setup.config.o.pcStats.a[1].o.defense = Null

\* C27: an import that fails (the dialog cancelled, a file that is not JSON,
\* a value the validation rejects) returns null and leaves the configuration
\* and the folder-selected flag as they were; the configuration is replaced
\* only by an import the validation accepts.
FailedImportKeepsConfig ==
  [][lastOp'.name = "import"
       => LET failed == \/ setup'.file.k \in {"none", "garbage"}
                        \/ ~validateConfig(JSON_parse(setup'.file))
          IN IF failed
               THEN /\ setup'.result = Null
                    /\ setup'.config = setup.config
                    /\ setup'.folderSelected = setup.folderSelected
               ELSE /\ setup'.config = JSON_parse(setup'.file)
                    /\ ~setup'.folderSelected]_vars

\* C27 witness: with a folder selected and a scanned configuration, a file
\* the validation rejects was imported; configuration and flag are kept.
FailedImportKeepsConfigWitness ==
  /\ lastOp.name = "import"
  /\ setup.file.k = "{}"
  /\ setup.result = Null
  /\ setup.folderSelected
  /\ Len(setup.config.o.parts.a) >= 1

\* The characters of the query, compared without case, occur in the text in
\* order.
IsSubsequence(text, query) ==
  \E f \in [1..Len(query) -> 1..Len(text)] :
    /\ \A j \in 1..Len(query) : lower(text)[f[j]] = lower(query)[j]
    /\ \A j \in 1..(Len(query) - 1) : f[j] < f[j + 1]

\* C28: for every text and every non-empty query, fuzzyScore(text, query) is 0
\* exactly if the characters of the query, compared without case, do not all
\* occur in the text in order; fuzzyScore is positive exactly when fuzzyMatch
\* is true.
ScoreZeroIffNoMatch ==
  lastOp.name = "search" /\ controls.searchQuery # <<>>
    => \A i \in 1..Len(controls.eventPlaylists) :
         LET text == controls.eventPlaylists[i].name
         IN /\ (controls.scores[i] = Score(0, 1))
                 <=> ~IsSubsequence(text, controls.searchQuery)
            /\ Less(Score(0, 1), controls.scores[i]) <=> controls.matches[i]

\* C28 witness: for the query "aa" the text "abA" matches as a subsequence
\* with score 55 and the text "ab" does not match.
ScoreZeroIffNoMatchWitness ==
  /\ lastOp.name = "search"
  /\ controls.searchQuery = <<"a", "a">>
  /\ Len(controls.eventPlaylists) = 2
  /\ controls.eventPlaylists[1].name = <<"a", "b", "A">>
  /\ controls.eventPlaylists[2].name = <<"a", "b">>
  /\ controls.scores = <<Score(330, 6), Score(0, 1)>>
  /\ controls.matches = <<TRUE, FALSE>>

\* C29: for a non-empty query, a text equal to the query (ignoring case)
\* scores higher than a text that only starts with it, which scores higher
\* than a text that contains it only at a later position, which scores
\* higher than a text that matches only as a non-contiguous subsequence.
ScoreOrdersKinds ==
  lastOp.name = "search" /\ controls.searchQuery # <<>>
    => LET query == lower(controls.searchQuery)
           at(text, i) == /\ i + Len(query) - 1 <= Len(text)
                          /\ SubSeq(lower(text), i, i + Len(query) - 1) = query
           kind(text) ==
             IF lower(text) = query THEN 4
             ELSE IF at(text, 1) THEN 3
             ELSE IF \E i \in 2..Len(text) : at(text, i) THEN 2
             ELSE IF IsSubsequence(text, query) THEN 1
             ELSE 0
       IN \A i, j \in 1..Len(controls.eventPlaylists) :
            /\ kind(controls.eventPlaylists[j].name) >= 1
            /\ kind(controls.eventPlaylists[i].name) > kind(controls.eventPlaylists[j].name)
            => Less(controls.scores[j], controls.scores[i])

\* C30: for an empty or whitespace-only query filterPlaylists returns its
\* input unchanged; otherwise it returns exactly the playlists whose name has
\* a non-zero fuzzyScore for the query, each once, in non-increasing order of
\* score; filtering [Combat, Calm Exploration] by "cmbt" gives [Combat].
FilterKeepsMatches ==
  lastOp.name = "search"
    => LET query == controls.searchQuery
           input == controls.eventPlaylists
           result == controls.filteredPlaylists
           score(p) == fuzzyScore(p.name, query)
       IN IF \A i \in 1..Len(query) : query[i] = " "
            THEN result = input
            ELSE /\ \A k \in 1..Len(result) :
                      /\ \E i \in 1..Len(input) : input[i] = result[k]
                      /\ score(result[k]) # Score(0, 1)
                 /\ \A i \in 1..Len(input) :
                      score(input[i]) # Score(0, 1)
                        => Cardinality({k \in 1..Len(result) : result[k] = input[i]}) = 1
                 /\ \A j, k \in 1..Len(result) :
                      j < k => ~Less(score(result[j]), score(result[k]))
                 /\ (input[1].name = Combat /\ query = <<"c", "m", "b", "t">>)
                      => result = <<input[1]>>

\* C30 witness: the playlists "abA" and "Aa" were filtered by "aa"; the second
\* one, an exact match, comes first.
FilterKeepsMatchesWitness ==
  /\ lastOp.name = "search"
  /\ controls.searchQuery = <<"a", "a">>
  /\ Len(controls.eventPlaylists) = 2
  /\ controls.eventPlaylists[1].name = <<"a", "b", "A">>
  /\ controls.eventPlaylists[2].name = <<"A", "a">>
  /\ controls.filteredPlaylists = <<controls.eventPlaylists[2], controls.eventPlaylists[1]>>

\* C31: search(query, maxResults) never throws and returns at most maxResults
\* results; it returns the empty list when the query is empty or only
\* whitespace, when nothing has been indexed yet, and when the lookup in the
\* index fails.
SearchIsSafe ==
  lastOp.name = "query"
    => /\ ~search.threw
       /\ Len(search.results) <= search.maxResults
       /\ (\A i \in 1..Len(search.query) : search.query[i] = " ") => search.results = <<>>
       /\ search.builds = 0 => search.results = <<>>
       /\ search.answer.threw => search.results = <<>>

\* a search whose index answers with two documents is cut to one result
SearchIsSafeWitness ==
  /\ lastOp.name = "query"
  /\ Len(search.answer.refs) = 2
  /\ search.maxResults = 1
  /\ Len(search.results) = 1

\* the index lookup of a search over two indexed documents failed
SearchFailureIsSilent ==
  /\ lastOp.name = "query"
  /\ search.answer.threw
  /\ Cardinality(search.index.refs) = 2
  /\ search.results = <<>>

\* C33: after any sequence of indexDocuments calls, every result of a search
\* refers to the path of a document in the list of the most recent call and
\* carries that document's name; no document of an earlier call survives.
IndexIsRebuilt ==
  lastOp.name = "query"
    => \A r \in 1..Len(search.results) :
         \E d \in 1..Len(search.list) :
           /\ search.list[d].path = search.results[r].ref
           /\ search.list[d].name = search.results[r].name

\* a search finds a document after a second indexDocuments call whose list
\* has none of the documents of the first
IndexIsRebuiltWitness ==
  /\ lastOp.name = "query"
  /\ search.earlier = {[path |-> "a.md", name |-> "a"], [path |-> "b.md", name |-> "a"]}
  /\ search.list = <<[path |-> "b.md", name |-> "b"]>>
  /\ search.results = <<[ref |-> "b.md", name |-> "b"]>>

\* C34: in every reachable state, when the playlist of the current mode is not
\* empty, the track index of that mode lies in 0..length - 1, so that
\* getCurrentTrackName() never answers 'Unknown track'.
IndexInRange ==
  Len(ActiveTracks(World)) > 0
    => /\ 0 <= ActiveIndex(World)
       /\ ActiveIndex(World) < Len(ActiveTracks(World))

\* a Part with a shorter ambient playlist was loaded while an event playlist
\* was active and the third ambient track was still in the channel, and the
\* ambient playlist starts at its index 0
IndexInRangeWitness ==
  /\ lastOp = Op("loadPart", "", 4)
  /\ audio.src = 3
  /\ am.playlistStates["P"].has
  /\ am.currentMode = "bgm"
  /\ am.bgmTracks = <<2, 1>>
  /\ am.currentBgmIndex = 0
  /\ lastReq = 2

\* C35: in event mode an event playlist is active and has a track; event mode
\* is entered only by a startEvent on a loaded playlist that is not empty, and
\* a stopEvent that clears the active playlist leaves event mode.
EventModeHasPlaylist ==
  /\ [](am.currentMode = "event"
          => /\ am.currentEventPlaylist # NoPlaylist
             /\ Len(am.currentEventPlaylist.tracks) > 0)
  /\ [][/\ (am.currentMode # "event" /\ am'.currentMode = "event")
            => /\ lastOp'.name = "startEvent"
               /\ lastOp'.id \in DOMAIN am.eventPlaylists
               /\ Len(am.eventPlaylists[lastOp'.id]) > 0
        /\ (lastOp'.name = "stopEvent" /\ am.currentEventPlaylist # NoPlaylist
              /\ am'.currentEventPlaylist = NoPlaylist)
            => am'.currentMode = "bgm"]_vars

\* stopEvent() has ended an event whose track is still in the channel, with
\* no ambient track to go back to
EventModeHasPlaylistWitness ==
  /\ lastOp.name = "stopEvent"
  /\ am.currentMode = "bgm"
  /\ am.currentEventPlaylist = NoPlaylist
  /\ am.bgmTracks = <<>>
  /\ audio.src = 4

\* C36: every call of a track-change operation returns to its caller, also
\* when a later request cancels the fade the call is waiting on: no step
\* leaves a call waiting on a fade whose timer it has cleared.
EveryCallReturns == abandoned = 0

\* C37: pause() is not undone by the engine: after pause(), the engine's own
\* steps leave the channel paused on the same track at the same position,
\* also when a track transition was in flight; resume() continues that track
\* from that position.
PauseHolds ==
  [][lastOp.name = "pause"
       => /\ lastOp'.name \in {"env", "tick", "reject", "ended"}
             => /\ audio'.paused
                /\ audio'.src = audio.src
                /\ audio'.currentTime = audio.currentTime
          /\ (lastOp'.name = "resume" /\ audio.currentTime < TrackLen)
             => /\ ~audio'.paused
                /\ audio'.src = audio.src
                /\ audio'.currentTime = audio.currentTime]_vars

\* C38: whenever no fade is in progress and a track is playing, the volume of
\* the channel is the stored volume.
VolumeIsApplied ==
  (/\ \A t \in TimerIds : timers[t].kind = "free"
   /\ calls = <<>>
   /\ ~am.isFading
   /\ audio.src # 0
   /\ ~audio.paused)
    => audio.volume = am.volume

\* C39: a resume position stored for a playlist was read from the channel
\* while it held that playlist's track at the stored index.
PositionsAreOwn ==
  [][/\ (am'.bgmState # am.bgmState /\ am'.bgmState.currentTime > 0)
        => /\ am'.bgmState.trackIndex < Len(am.bgmTracks)
           /\ audio.src = am.bgmTracks[am'.bgmState.trackIndex + 1]
     /\ \A id \in PlaylistIds :
          (am'.playlistStates[id] # am.playlistStates[id]
             /\ am'.playlistStates[id].has /\ am'.playlistStates[id].currentTime > 0)
            => /\ am.currentEventPlaylist.id = id
               /\ am'.playlistStates[id].trackIndex < Len(am.currentEventPlaylist.tracks)
               /\ audio.src
                    = am.currentEventPlaylist.tracks[am'.playlistStates[id].trackIndex + 1]
    ]_vars

\* the index startEvent(id) finds remembered for id, after it has saved the
\* current state
RememberedIndex(id) == saveCurrentState(World).am.playlistStates[id]

\* C40: when the remembered index of a playlist is not an index of its loaded
\* version, playBGM() and startEvent(id) start it at index 0 and position 0
\* and discard the remembered state.
StaleStartsFresh ==
  [][/\ (lastOp'.name = "playBGM" /\ Room(World) /\ Len(am.bgmTracks) > 0
           /\ saveCurrentState(World).am.bgmState.trackIndex >= Len(am.bgmTracks))
        => /\ am'.currentBgmIndex = 0
           /\ am'.bgmState = [trackIndex |-> 0, currentTime |-> 0]
           /\ calls' # <<>>
           /\ calls'[Len(calls')].startTime = 0
     /\ \A id \in PlaylistIds :
          (lastOp'.name = "startEvent" /\ lastOp'.id = id /\ Room(World)
             /\ id \in DOMAIN am.eventPlaylists
             /\ Len(am.eventPlaylists[id]) > 0
             /\ RememberedIndex(id).has
             /\ RememberedIndex(id).trackIndex >= Len(am.eventPlaylists[id]))
            => /\ am'.currentEventIndex = 0
               /\ ~am'.playlistStates[id].has
               /\ calls' # <<>>
               /\ calls'[Len(calls')].startTime = 0]_vars

=============================================================================
